---- MODULE Spec2Model ----
(***************************************************************************)
(* A model of the stream processing core of f1-backend: the state store    *)
(* (app/state/state_manager.py), the deep merge (app/utils/helpers.py) and *)
(* the frame handlers of F1StreamProcessor                                 *)
(* (app/streaming/f1_stream_processor.py).                                 *)
(*                                                                         *)
(* JSON trees are tagged values [t |-> tag, v |-> content]; a Python dict  *)
(* is a function from its keys to tagged values.  Dictionaries of payloads *)
(* list their keys in the order of KeyOrder.                               *)
(***************************************************************************)
EXTENDS Integers, Sequences, FiniteSets, TLC

VARIABLES
    state,      \* StateManager.state: slot name -> JSON value
    clients,    \* StateManager.clients: the registered subscribers, in order
    mode,       \* main(): "LIVE" or "REPLAY"; "CALL" when _process_message is called
                \* without a timestamp, "STORE" when update_state is driven directly
    now,        \* the wall clock at the end of the last handler, in ticks of 10 ms
    focus,      \* the slot a run is about: the one update_state is driven on, or the
                \* one the frames of the run bear on
    applied,    \* the payloads passed to update_state(focus, _), in call order
    hist,       \* the last frame handed to _process_message and how its handling ended
    nframes,    \* the number of frames handed to _process_message so far
    inpit,      \* per driver: <<t0>>, the frame timestamp of its open InPit event, or NoPit
    fan,        \* the subscriber endpoints and the broadcast in progress, send by send
    conn        \* connect_and_process_live: the phase of the loop and retry_delay

vars == <<state, clients, mode, now, focus, applied, hist, nframes, inpit, fan, conn>>

----------------------------------------------------------------------------
(* JSON values *)

Obj(f)  == [t |-> "dict", v |-> f]
Lst(s)  == [t |-> "list", v |-> s]
Num(n)  == [t |-> "int", v |-> n]
Str(s)  == [t |-> "str", v |-> s]
Bool(b) == [t |-> "bool", v |-> b]
Date(n) == [t |-> "datetime", v |-> n]
None    == [t |-> "None", v |-> 0]
EmptyObj == Obj(<<>>)
EmptyLst == Lst(<<>>)

IsDict(x) == x.t = "dict"
IsList(x) == x.t = "list"
IsStr(x)  == x.t \in {"str", "tstr", "zstr", "isostr"}

\* `k in d` for a dict d
Has(d, k) == k \in DOMAIN d.v
\* d.get(k, default)
Get(d, k, default) == IF Has(d, k) THEN d.v[k] ELSE default
\* d[k] = val
Put(d, k, val) == Obj([x \in (DOMAIN d.v) \cup {k} |-> IF x = k THEN val ELSE d.v[x]])
\* d.pop(k) as a statement
Del(d, k) == Obj([x \in (DOMAIN d.v) \ {k} |-> d.v[x]])

\* Python truthiness of a JSON value (`if x:`)
Truthy(x) ==
    CASE x.t = "None" -> FALSE
      [] x.t = "bool" -> x.v
      [] x.t = "int"  -> x.v /= 0
      [] x.t = "str"  -> x.v /= ""
      [] x.t = "tstr" -> x.v /= <<>>
      [] x.t = "list" -> x.v /= <<>>
      [] x.t = "dict" -> DOMAIN x.v /= {}
      [] OTHER        -> TRUE

\* The order in which a payload dictionary lists its keys.
KeyOrder ==
    << "R", "M", "A", "type", "data",
       "SessionInfo", "SessionInfo.z", "LapCount", "LapCount.z", "TimingData",
       "RaceControlMessages", "TeamRadio", "WeatherData", "CarData.z", "Position.z",
       "CurrentLap", "TotalLaps", "Entries",
       "Messages", "Captures", "Lines", "Meeting", "Circuit", "ShortName", "Key",
       "Utc", "Category", "Message", "Lap", "Path",
       "1", "2", "16", "44",
       "NumberOfLaps", "InPit", "PitOut", "LastLapTime", "Value", "Sectors", "Speeds",
       "0", "I1", "I2", "ST",
       "a", "b", "x", "y" >>

\* list(d.keys())
Keys(d) == SelectSeq(KeyOrder, LAMBDA k : k \in DOMAIN d.v)

RECURSIVE ValuesOf(_, _)
ValuesOf(d, keys) ==
    IF keys = <<>> THEN <<>> ELSE <<d.v[Head(keys)]>> \o ValuesOf(d, Tail(keys))
\* list(d.values())
Values(d) == ValuesOf(d, Keys(d))

----------------------------------------------------------------------------
(* helpers.deep_merge *)

RECURSIVE DeepMerge(_, _)
RECURSIVE MergeItems(_, _, _)

\* a merge that drops a nested object both sides hold instead of merging it
DeepMergeDropping(destination, source) ==
    Obj([k \in { x \in (DOMAIN destination.v) \cup (DOMAIN source.v) :
                    ~(Has(destination, x) /\ Has(source, x)
                        /\ IsDict(destination.v[x]) /\ IsDict(source.v[x])) } |->
            IF k \in DOMAIN source.v THEN source.v[k] ELSE destination.v[k]])

\* deep_merge with the recursion left out: a nested object overwrites the stored one
DeepMergeShallow(destination, source) ==
    Obj([k \in (DOMAIN destination.v) \cup (DOMAIN source.v) |->
            IF k \in DOMAIN source.v THEN source.v[k] ELSE destination.v[k]])

\* the loop `for key, value in source.items()` over the keys still to visit
MergeItems(destination, source, keys) ==
    IF keys = <<>> THEN destination
    ELSE LET key   == Head(keys)
             value == source.v[key]
         IN  IF Has(destination, key) /\ IsDict(destination.v[key]) /\ IsDict(value)
             THEN MergeItems(Put(destination, key, DeepMerge(destination.v[key], value)),
                             source, Tail(keys))
             ELSE MergeItems(Put(destination, key, value), source, Tail(keys))

DeepMerge(destination, source) == MergeItems(destination, source, Keys(source))

----------------------------------------------------------------------------
(* StateManager *)

\* StateManager.__init__: self.state
InitialState ==
    Obj([k \in {"DriverList", "TimingData", "TimingStats", "TimingAppData", "CarData",
                "PositionData", "RaceControlMessages", "TeamRadio", "SessionInfo",
                "TrackStatus", "WeatherData", "LapCount", "LapHistory", "PitHistory",
                "DriversInPits"} |->
            CASE k \in {"RaceControlMessages", "TeamRadio", "LapHistory", "PitHistory"}
                      -> EmptyLst
              [] k = "LapCount"
                      -> Obj(("CurrentLap" :> Num(0)) @@ ("TotalLaps" :> Num(0)))
              [] OTHER -> EmptyObj])

\* the feeds of "Pattern 1: Deep Merging Feeds"
MergeFeeds == {"TimingData", "TimingAppData", "TimingStats", "TopThree", "DriverList"}

\* update_state, RaceControlMessages: messages_to_process
RcmToProcess(new_data) ==
    IF IsDict(new_data)
    THEN IF Has(new_data, "Messages")
         THEN LET m == new_data.v["Messages"]
              IN  IF IsList(m) THEN m.v
                  ELSE IF IsDict(m) THEN Values(m)
                  ELSE <<m>>
         ELSE Values(new_data)
    ELSE IF IsList(new_data) THEN new_data.v
    ELSE <<new_data>>

\* update_state, RaceControlMessages: the test a message passes to be appended
RcmValid(msg_item) ==
    IsDict(msg_item) /\ {"Utc", "Category", "Message"} \subseteq DOMAIN msg_item.v

\* update_state, TeamRadio: captures_to_add
CapturesToAdd(new_data) ==
    IF IsDict(new_data) /\ Has(new_data, "Captures")
    THEN IF IsList(new_data.v["Captures"]) THEN new_data.v["Captures"].v
         ELSE <<new_data.v["Captures"]>>
    ELSE IF IsList(new_data) THEN new_data.v
    ELSE <<new_data>>

\* StateManager.update_state(feed_name, new_data) on the store st
UpdateState(st, feed_name, new_data) ==
    IF feed_name \in MergeFeeds
    THEN IF IsDict(new_data)
         THEN Put(st, feed_name, DeepMerge(Get(st, feed_name, EmptyObj), new_data))
         ELSE st
    ELSE IF feed_name = "RaceControlMessages"
    THEN Put(st, feed_name,
             Lst(st.v[feed_name].v \o SelectSeq(RcmToProcess(new_data), RcmValid)))
    ELSE IF feed_name = "TeamRadio"
    THEN Put(st, feed_name, Lst(st.v[feed_name].v \o CapturesToAdd(new_data)))
    ELSE Put(st, feed_name, new_data)

----------------------------------------------------------------------------
(* helpers.time_string_to_seconds; a time string is [t |-> "tstr"] over its characters *)

TStr(chars)  == [t |-> "tstr", v |-> chars]
\* a float number of seconds, held in thousandths
Float(ms)    == [t |-> "float", v |-> ms]

DigitChars == {"0", "1", "2", "3", "4", "5", "6", "7", "8", "9"}
DigitVal(c) ==
    CASE c = "0" -> 0 [] c = "1" -> 1 [] c = "2" -> 2 [] c = "3" -> 3 [] c = "4" -> 4
      [] c = "5" -> 5 [] c = "6" -> 6 [] c = "7" -> 7 [] c = "8" -> 8 [] c = "9" -> 9

AllDigits(cs) == \A i \in 1..Len(cs) : cs[i] \in DigitChars

RECURSIVE DigitsValue(_)
DigitsValue(cs) ==
    IF cs = <<>> THEN 0 ELSE 10 * DigitsValue(SubSeq(cs, 1, Len(cs) - 1)) + DigitVal(cs[Len(cs)])

\* the first position of character c in cs, 0 when absent
IndexOf(cs, c) ==
    IF \E i \in 1..Len(cs) : cs[i] = c
    THEN CHOOSE i \in 1..Len(cs) : cs[i] = c /\ \A j \in 1..(i - 1) : cs[j] /= c
    ELSE 0

\* str.split(c): parts[0] and parts[1]
Part0(cs, c) == SubSeq(cs, 1, IndexOf(cs, c) - 1)
Part1(cs, c) ==
    LET rest == SubSeq(cs, IndexOf(cs, c) + 1, Len(cs))
    IN  IF IndexOf(rest, c) = 0 THEN rest ELSE SubSeq(rest, 1, IndexOf(rest, c) - 1)

\* int(cs) succeeds (decimal digits only)
IntOk(cs) == cs /= <<>> /\ AllDigits(cs)

\* float(cs) succeeds: digits with at most one point and at most three decimals
FloatOk(cs) ==
    IF IndexOf(cs, ".") = 0 THEN IntOk(cs)
    ELSE LET ip == SubSeq(cs, 1, IndexOf(cs, ".") - 1)
             fp == SubSeq(cs, IndexOf(cs, ".") + 1, Len(cs))
         IN  AllDigits(ip) /\ AllDigits(fp) /\ Len(ip) + Len(fp) > 0 /\ Len(fp) <= 3

\* float(cs) in thousandths
FloatMs(cs) ==
    IF IndexOf(cs, ".") = 0 THEN 1000 * DigitsValue(cs)
    ELSE LET ip == SubSeq(cs, 1, IndexOf(cs, ".") - 1)
             fp == SubSeq(cs, IndexOf(cs, ".") + 1, Len(cs))
             scale == CASE Len(fp) = 0 -> 0 [] Len(fp) = 1 -> 100 [] Len(fp) = 2 -> 10
                        [] OTHER -> 1
         IN  1000 * DigitsValue(ip) + scale * DigitsValue(fp)

\* time_string_to_seconds(time_str): a Float, or None
TimeStringToSeconds(time_str) ==
    IF time_str.t /= "tstr" \/ time_str.v = <<>> THEN None
    ELSE IF IndexOf(time_str.v, ":") /= 0
    THEN LET minutes == Part0(time_str.v, ":")
             seconds == Part1(time_str.v, ":")
         IN  IF IntOk(minutes) /\ FloatOk(seconds)
             THEN Float(60000 * DigitsValue(minutes) + FloatMs(seconds))
             ELSE None
    ELSE IF FloatOk(time_str.v) THEN Float(FloatMs(time_str.v)) ELSE None

----------------------------------------------------------------------------
(* F1StreamProcessor: the frame handlers.  A handler runs on a context          *)
(* [st, out, nb, raised]: the store, the envelopes broadcast so far, the number *)
(* of broadcast calls that reached a send, and whether an exception is          *)
(* propagating; env = [ts, clock, failAt, clients] is what the handler reads:   *)
(* the frame's timestamp (a Date or None), datetime.now() inside the handler,   *)
(* the broadcast call whose send raises (0: none) and the registered clients.   *)

\* an ISO-8601 string of an instant, held in milliseconds
Iso(ms) == [t |-> "isostr", v |-> ms]
\* a base64 string of the raw-deflate of the JSON text of tree
Z(tree) == [t |-> "zstr", v |-> tree]
\* one clock tick (10 ms) in milliseconds
TickMs == 10

Ctx(st) == [st |-> st, out |-> <<>>, nb |-> 0, raised |-> FALSE]
Raise(ctx) == [ctx EXCEPT !.raised = TRUE]

\* GRAND_PRIX_LAPS.get(circuit_short_name, 0)
GrandPrixLaps(name) ==
    CASE name = "Monte Carlo" -> 78      [] name = "Silverstone" -> 52
      [] name = "Spa-Francorchamps" -> 44 [] name = "Monza" -> 53
      [] name = "Bahrain" -> 57          [] name = "Jeddah" -> 50
      [] name = "Albert Park" -> 58      [] name = "Imola" -> 63
      [] name = "Miami" -> 57            [] name = "Catalunya" -> 66
      [] name = "Gilles-Villeneuve" -> 70 [] name = "Red Bull Ring" -> 71
      [] name = "Hungaroring" -> 70      [] name = "Zandvoort" -> 72
      [] name = "Marina Bay" -> 62       [] name = "Suzuka" -> 53
      [] name = "COTA" -> 56             [] name = "Mexico City" -> 71
      [] name = "Interlagos" -> 71       [] name = "Las Vegas" -> 50
      [] name = "Losail" -> 57           [] name = "Yas Marina" -> 58
      [] name = "Shanghai" -> 56         [] name = "Baku" -> 51
      [] OTHER -> 0

\* json.dumps(data) succeeds: the default encoder has no rule for a datetime
RECURSIVE Serializable(_)
Serializable(x) ==
    CASE x.t = "datetime" -> FALSE
      [] x.t = "dict" -> \A k \in DOMAIN x.v : Serializable(x.v[k])
      [] x.t = "list" -> \A i \in 1..Len(x.v) : Serializable(x.v[i])
      [] OTHER -> TRUE

\* StateManager.broadcast(data): json.dumps, then one send_text per client
Broadcast(ctx, env, data) ==
    IF ctx.raised THEN ctx
    ELSE IF ~Serializable(data) THEN Raise(ctx)
    ELSE IF env.clients = <<>> THEN [ctx EXCEPT !.out = Append(@, data)]
    ELSE IF ctx.nb + 1 = env.failAt THEN [Raise(ctx) EXCEPT !.nb = @ + 1]
    ELSE [ctx EXCEPT !.out = Append(@, data), !.nb = @ + 1]

Envelope(type, data) == Obj(("type" :> Str(type)) @@ ("data" :> data))

\* a decoder that makes a value of every input
DecodeAnything(data_to_process) ==
    IF data_to_process.t = "zstr" THEN data_to_process.v ELSE Obj("x" :> Num(1))

\* _decode_and_decompress(data_to_process): the decoded tree, or None
DecodeAndDecompress(data_to_process) ==
    IF data_to_process.t = "zstr" THEN data_to_process.v ELSE None

\* feed_name.endswith(".z") and feed_name[:-2], over the feed names of the model
EndsWithZ(feed_name) ==
    feed_name \in {"CarData.z", "Position.z", "SessionInfo.z", "LapCount.z"}
CleanFeedName(feed_name) ==
    CASE feed_name = "CarData.z" -> "CarData"
      [] feed_name = "Position.z" -> "Position"
      [] feed_name = "SessionInfo.z" -> "SessionInfo"
      [] feed_name = "LapCount.z" -> "LapCount"

\* payload.get("Meeting", {}).get("Circuit", {}).get("ShortName") raises
ShortNameRaises(payload) ==
    \/ ~IsDict(payload)
    \/ ~IsDict(Get(payload, "Meeting", EmptyObj))
    \/ ~IsDict(Get(Get(payload, "Meeting", EmptyObj), "Circuit", EmptyObj))
CircuitShortName(payload) ==
    Get(Get(Get(payload, "Meeting", EmptyObj), "Circuit", EmptyObj), "ShortName", None)

\* state["LapCount"]["TotalLaps"] = total_laps
SetTotalLaps(st, total_laps) ==
    Put(st, "LapCount", Put(st.v["LapCount"], "TotalLaps", Num(total_laps)))

\* the SessionInfo lookup with the test for a short name left out
TotalLapsFromAlways(ctx, payload) ==
    IF ctx.raised THEN ctx
    ELSE IF ShortNameRaises(payload) THEN Raise(ctx)
    ELSE LET circuit_short_name == CircuitShortName(payload)
         IN  [ctx EXCEPT !.st = SetTotalLaps(ctx.st,
                 IF IsStr(circuit_short_name) THEN GrandPrixLaps(circuit_short_name.v) ELSE 0)]

\* "If we find SessionInfo, set the total laps from our map"
TotalLapsFrom(ctx, payload) ==
    IF ctx.raised THEN ctx
    ELSE IF ShortNameRaises(payload) THEN Raise(ctx)
    ELSE LET circuit_short_name == CircuitShortName(payload)
         IN  IF Truthy(circuit_short_name)
             THEN [ctx EXCEPT !.st = SetTotalLaps(ctx.st, GrandPrixLaps(circuit_short_name.v))]
             ELSE ctx

\* the snapshot loop body with the LapCount feed stored like any other feed
SnapshotEntryKeepsLapCount(ctx, feed_name, feed_data) ==
    IF ctx.raised THEN ctx
    ELSE LET name == IF EndsWithZ(feed_name) THEN CleanFeedName(feed_name) ELSE feed_name
             data == IF EndsWithZ(feed_name) THEN DecodeAndDecompress(feed_data) ELSE feed_data
         IN  IF EndsWithZ(feed_name) /\ ~Truthy(data) THEN ctx
             ELSE LET c1 == IF name = "SessionInfo" THEN TotalLapsFrom(ctx, data) ELSE ctx
                  IN  IF c1.raised THEN c1
                      ELSE [c1 EXCEPT !.st = UpdateState(c1.st, name, data)]

\* _handle_snapshot: the body of `for feed_name, feed_data in snapshot_data.items()`
SnapshotEntry(ctx, feed_name, feed_data) ==
    IF ctx.raised THEN ctx
    ELSE IF EndsWithZ(feed_name)
    THEN LET clean_feed_name == CleanFeedName(feed_name)
             decoded_data == DecodeAndDecompress(feed_data)
         IN  IF Truthy(decoded_data)
             THEN LET c1 == IF clean_feed_name = "SessionInfo"
                            THEN TotalLapsFrom(ctx, decoded_data) ELSE ctx
                  IN  IF c1.raised \/ clean_feed_name = "LapCount" THEN c1
                      ELSE [c1 EXCEPT !.st = UpdateState(c1.st, clean_feed_name, decoded_data)]
             ELSE ctx
    ELSE LET c1 == IF feed_name = "SessionInfo" THEN TotalLapsFrom(ctx, feed_data) ELSE ctx
         IN  IF c1.raised \/ feed_name = "LapCount" THEN c1
             ELSE [c1 EXCEPT !.st = UpdateState(c1.st, feed_name, feed_data)]

RECURSIVE SnapshotEntries(_, _, _)
SnapshotEntries(ctx, snapshot_data, names) ==
    IF names = <<>> THEN ctx
    ELSE SnapshotEntries(SnapshotEntry(ctx, Head(names), snapshot_data.v[Head(names)]),
                         snapshot_data, Tail(names))

\* _handle_snapshot(snapshot_data)
HandleSnapshot(ctx, env, snapshot_data) ==
    IF ~IsDict(snapshot_data) THEN Raise(ctx)
    ELSE LET c1 == SnapshotEntries(ctx, snapshot_data, Keys(snapshot_data))
         IN  Broadcast(c1, env, c1.st)

----------------------------------------------------------------------------
(* Derivation: the pit-stop detector, the lap detector, the lap counter *)

\* int(driver_number), over the driver numbers of the model
IntOfDriver(driver_number) ==
    CASE driver_number = "16" -> 16 [] driver_number = "44" -> 44 [] OTHER -> 0

\* state.get("SessionInfo", {}).get("Key") and ....get("Meeting", {}).get("Key") raise
KeysRaise(st) ==
    \/ ~IsDict(Get(st, "SessionInfo", EmptyObj))
    \/ ~IsDict(Get(Get(st, "SessionInfo", EmptyObj), "Meeting", EmptyObj))
SessionKey(st) == Get(Get(st, "SessionInfo", EmptyObj), "Key", None)
MeetingKey(st) == Get(Get(Get(st, "SessionInfo", EmptyObj), "Meeting", EmptyObj), "Key", None)

\* state["TimingData"]["Lines"].get(driver_number, {})
StoredLine(st, driver_number) ==
    Get(Get(Get(st, "TimingData", EmptyObj), "Lines", EmptyObj), driver_number, EmptyObj)

\* _check_and_record_pits: "Check for a driver entering the pits"
PitEntry(ctx, env, driver_number, update) ==
    IF Get(update, "InPit", None) = Bool(TRUE)
    THEN LET line == StoredLine(ctx.st, driver_number)
         IN  IF ~IsDict(line) \/ Get(line, "NumberOfLaps", Num(0)).t /= "int"
             THEN Raise(ctx)
             ELSE [ctx EXCEPT !.st = Put(ctx.st, "DriversInPits",
                      Put(ctx.st.v["DriversInPits"], driver_number,
                          Obj(("entry_time" :> Date(env.clock)) @@
                              ("lap_number" :> Num(Get(line, "NumberOfLaps", Num(0)).v + 1)))))]
    ELSE ctx

\* _check_and_record_pits: "Check for a driver exiting the pits"
PitExit(ctx, env, driver_number, update) ==
    IF ctx.raised THEN ctx
    ELSE IF Get(update, "PitOut", None) = Bool(TRUE)
            /\ Has(ctx.st.v["DriversInPits"], driver_number)
    THEN LET pit_entry_data == ctx.st.v["DriversInPits"].v[driver_number]
             st1 == Put(ctx.st, "DriversInPits", Del(ctx.st.v["DriversInPits"], driver_number))
             event_time == IF env.ts = None THEN Date(env.clock) ELSE env.ts
             exit_time == event_time
             entry_time == pit_entry_data.v["entry_time"]
             pit_duration == (exit_time.v - entry_time.v) * TickMs
         IN  IF KeysRaise(st1) THEN Raise([ctx EXCEPT !.st = st1])
             ELSE LET pit_record ==
                          Obj(("date" :> Iso(exit_time.v * TickMs)) @@
                              ("driver_number" :> Num(IntOfDriver(driver_number))) @@
                              ("lap_number" :> pit_entry_data.v["lap_number"]) @@
                              ("pit_duration" :> Float(pit_duration)) @@
                              ("session_key" :> SessionKey(st1)) @@
                              ("meeting_key" :> MeetingKey(st1)))
                      st2 == Put(st1, "PitHistory",
                                 Lst(Append(st1.v["PitHistory"].v, pit_record)))
                  IN  Broadcast([ctx EXCEPT !.st = st2], env, Envelope("NewPitStop", pit_record))
    ELSE ctx

RECURSIVE PitLines(_, _, _, _)
\* _check_and_record_pits: the loop over timing_data_update["Lines"].items()
PitLines(ctx, env, lines, drivers) ==
    IF drivers = <<>> \/ ctx.raised THEN ctx
    ELSE LET driver_number == Head(drivers)
             update == lines.v[driver_number]
         IN  IF ~IsDict(update) THEN Raise(ctx)
             ELSE PitLines(PitExit(PitEntry(ctx, env, driver_number, update),
                                   env, driver_number, update),
                           env, lines, Tail(drivers))

\* "Lines" not in timing_data_update: raises for a payload that is no container
LinesTestRaises(payload) == payload.t \in {"int", "bool", "None", "float", "datetime"}
HasLines(payload) == IsDict(payload) /\ Has(payload, "Lines")

\* _check_and_record_pits(timing_data_update, timestamp)
CheckAndRecordPits(ctx, env, timing_data_update) ==
    IF ctx.raised THEN ctx
    ELSE IF LinesTestRaises(timing_data_update) THEN Raise(ctx)
    ELSE IF ~HasLines(timing_data_update) THEN ctx
    ELSE IF ~IsDict(timing_data_update.v["Lines"]) THEN Raise(ctx)
    ELSE PitLines(ctx, env, timing_data_update.v["Lines"], Keys(timing_data_update.v["Lines"]))

\* d.get(k1, {}).get(k2, {}).get("Value") raises
ValueChainRaises(d, k1, k2) ==
    \/ ~IsDict(Get(d, k1, EmptyObj))
    \/ ~IsDict(Get(Get(d, k1, EmptyObj), k2, EmptyObj))
ValueChain(d, k1, k2) == Get(Get(Get(d, k1, EmptyObj), k2, EmptyObj), "Value", None)

\* deep_merge(copy, update_payload) on the shallow copy of the stored line: what it
\* writes through to the stored line (the nested objects the copy shares with it)
WriteThrough(line, update_payload) ==
    Obj([k \in DOMAIN line.v |->
            IF Has(update_payload, k) /\ IsDict(line.v[k]) /\ IsDict(update_payload.v[k])
            THEN DeepMerge(line.v[k], update_payload.v[k])
            ELSE line.v[k]])

\* the lap start with the duration left out
DateStartAtArrival(env, lap_duration_seconds) ==
    IF env.ts = None THEN None ELSE Iso(env.ts.v * TickMs)

\* "Calculate the lap start time": end_time_dt - duration_td, as an ISO string
DateStart(env, lap_duration_seconds) ==
    IF env.ts = None THEN None
    ELSE Iso(env.ts.v * TickMs - lap_duration_seconds.v)

\* _check_and_record_laps: the loop body for one driver
LapLine(ctx, env, driver_number, update_payload) ==
    IF ~IsDict(update_payload) \/ ~IsDict(Get(update_payload, "LastLapTime", EmptyObj))
    THEN Raise(ctx)
    ELSE LET last_lap_time_str == Get(Get(update_payload, "LastLapTime", EmptyObj), "Value", None)
             lap_duration_seconds == TimeStringToSeconds(last_lap_time_str)
             timing == Get(ctx.st, "TimingData", EmptyObj)
             lines == Get(timing, "Lines", EmptyObj)
         IN  IF ~Truthy(last_lap_time_str) \/ lap_duration_seconds = None THEN ctx
             ELSE IF ~IsDict(lines) \/ ~IsDict(Get(lines, driver_number, EmptyObj))
             THEN Raise(ctx)
             ELSE LET before == Get(lines, driver_number, EmptyObj)
                      fully_merged_driver_data == DeepMerge(before, update_payload)
                      st1 == IF Has(lines, driver_number)
                             THEN Put(ctx.st, "TimingData",
                                      Put(timing, "Lines",
                                          Put(lines, driver_number,
                                              WriteThrough(before, update_payload))))
                             ELSE ctx.st
                      c1 == [ctx EXCEPT !.st = st1]
                      lap_number == Get(fully_merged_driver_data, "NumberOfLaps", None)
                      date_start == DateStart(env, lap_duration_seconds)
                  IN  IF ~Truthy(lap_number) THEN c1
                      ELSE IF \/ ValueChainRaises(fully_merged_driver_data, "Sectors", "0")
                              \/ ValueChainRaises(fully_merged_driver_data, "Sectors", "1")
                              \/ ValueChainRaises(fully_merged_driver_data, "Sectors", "2")
                              \/ ValueChainRaises(fully_merged_driver_data, "Speeds", "I1")
                              \/ ValueChainRaises(fully_merged_driver_data, "Speeds", "I2")
                              \/ ValueChainRaises(fully_merged_driver_data, "Speeds", "ST")
                              \/ KeysRaise(st1)
                      THEN Raise(c1)
                      ELSE LET m == fully_merged_driver_data
                               lap_record ==
                                Obj(("date_start" :> date_start) @@
                                    ("driver_number" :> Num(IntOfDriver(driver_number))) @@
                                    ("lap_number" :> lap_number) @@
                                    ("lap_duration" :> lap_duration_seconds) @@
                                    ("duration_sector_1" :>
                                        TimeStringToSeconds(ValueChain(m, "Sectors", "0"))) @@
                                    ("duration_sector_2" :>
                                        TimeStringToSeconds(ValueChain(m, "Sectors", "1"))) @@
                                    ("duration_sector_3" :>
                                        TimeStringToSeconds(ValueChain(m, "Sectors", "2"))) @@
                                    ("i1_speed" :> ValueChain(m, "Speeds", "I1")) @@
                                    ("i2_speed" :> ValueChain(m, "Speeds", "I2")) @@
                                    ("st_speed" :> ValueChain(m, "Speeds", "ST")) @@
                                    ("is_pit_out_lap" :> Get(m, "PitOut", Bool(FALSE))) @@
                                    ("session_key" :> SessionKey(st1)) @@
                                    ("meeting_key" :> MeetingKey(st1)))
                               st2 == Put(st1, "LapHistory",
                                          Lst(Append(st1.v["LapHistory"].v, lap_record)))
                           IN  Broadcast([c1 EXCEPT !.st = st2], env,
                                         Envelope("NewLap", lap_record))

RECURSIVE LapLines(_, _, _, _)
\* _check_and_record_laps: the loop over timing_data_update["Lines"].items()
LapLines(ctx, env, lines, drivers) ==
    IF drivers = <<>> \/ ctx.raised THEN ctx
    ELSE LapLines(LapLine(ctx, env, Head(drivers), lines.v[Head(drivers)]),
                  env, lines, Tail(drivers))

\* _check_and_record_laps(timing_data_update, message_timestamp_str)
CheckAndRecordLaps(ctx, env, timing_data_update) ==
    IF ctx.raised THEN ctx
    ELSE IF LinesTestRaises(timing_data_update) THEN Raise(ctx)
    ELSE IF ~HasLines(timing_data_update) THEN ctx
    ELSE IF ~IsDict(timing_data_update.v["Lines"]) THEN Raise(ctx)
    ELSE LapLines(ctx, env, timing_data_update.v["Lines"], Keys(timing_data_update.v["Lines"]))

\* the scan of all_drivers_timing.values() raises
LapScanRaises(all_drivers_timing) ==
    IF ~IsDict(all_drivers_timing) THEN Truthy(all_drivers_timing)
    ELSE \E d \in DOMAIN all_drivers_timing.v :
            \/ ~IsDict(all_drivers_timing.v[d])
            \/ Get(all_drivers_timing.v[d], "NumberOfLaps", Num(0)).t /= "int"

\* max_laps_completed after the scan
MaxLapsCompleted(all_drivers_timing) ==
    LET laps == {0} \cup { Get(all_drivers_timing.v[d], "NumberOfLaps", Num(0)).v :
                           d \in DOMAIN all_drivers_timing.v }
    IN  CHOOSE m \in laps : \A n \in laps : n <= m

----------------------------------------------------------------------------
(* Ingress: _handle_feed_update and _process_message *)

\* "Basic validation of the update structure"
ValidUpdate(update) ==
    /\ IsDict(update) /\ Has(update, "M") /\ Has(update, "A")
    /\ IsList(update.v["A"]) /\ Len(update.v["A"].v) > 1

\* _handle_feed_update, feed_name == "TimingData"
TimingDataUpdate(ctx, env, payload) ==
    LET st1 == UpdateState(ctx.st, "TimingData", payload)
        known_total_laps == Get(Get(st1, "LapCount", EmptyObj), "TotalLaps", Num(0))
        all_drivers_timing == Get(Get(st1, "TimingData", EmptyObj), "Lines", EmptyObj)
    IN  IF LapScanRaises(all_drivers_timing) THEN Raise([ctx EXCEPT !.st = st1])
        ELSE LET max_laps_completed ==
                     IF IsDict(all_drivers_timing) THEN MaxLapsCompleted(all_drivers_timing)
                     ELSE 0
                 current_lap == IF max_laps_completed > 0 THEN max_laps_completed + 1 ELSE 1
                 correct_lap_data == Obj(("CurrentLap" :> Num(current_lap)) @@
                                         ("TotalLaps" :> known_total_laps))
                 c2 == [ctx EXCEPT !.st = Put(st1, "LapCount", correct_lap_data)]
                 c3 == Broadcast(c2, env, Envelope("LapCount", correct_lap_data))
                 c4 == CheckAndRecordPits(c3, env, payload)
                 c5 == CheckAndRecordLaps(c4, env, payload)
             IN  Broadcast(c5, env, Envelope("TimingData", payload))

RECURSIVE BroadcastEach(_, _, _, _)
\* one broadcast per element of items
BroadcastEach(ctx, env, type, items) ==
    IF items = <<>> \/ ctx.raised THEN ctx
    ELSE BroadcastEach(Broadcast(ctx, env, Envelope(type, Head(items))), env, type, Tail(items))

\* `for capture in payload.get("Captures", [])`: the elements iterated
CaptureItems(payload) ==
    LET captures == Get(payload, "Captures", EmptyLst)
    IN  IF IsList(captures) THEN captures.v
        ELSE IF IsDict(captures) THEN [i \in 1..Len(Keys(captures)) |-> Str(Keys(captures)[i])]
        ELSE <<>>
CaptureItemsRaise(payload) ==
    \/ ~IsDict(payload)
    \/ Get(payload, "Captures", EmptyLst).t \in {"int", "bool", "None", "float"}

\* _handle_feed_update: the body of `for update in feed_updates`
FeedUpdate(ctx, env, update) ==
    IF ctx.raised \/ ~ValidUpdate(update) THEN ctx
    ELSE LET feed_name == update.v["A"].v[1].v
             payload   == update.v["A"].v[2]
         IN  IF feed_name = "TimingData" THEN TimingDataUpdate(ctx, env, payload)
             ELSE IF feed_name = "SessionInfo"
             THEN LET c1 == TotalLapsFrom(ctx, payload)
                  IN  IF c1.raised THEN c1
                      ELSE Broadcast([c1 EXCEPT !.st = UpdateState(c1.st, feed_name, payload)],
                                     env, Envelope(feed_name, payload))
             ELSE IF feed_name = "LapCount" THEN ctx
             ELSE LET c1 == [ctx EXCEPT !.st = UpdateState(ctx.st, feed_name, payload)]
                  IN  IF feed_name = "RaceControlMessages"
                      THEN Broadcast(c1, env, Envelope("RaceControlMessages", payload))
                      ELSE IF feed_name = "TeamRadio"
                      THEN IF CaptureItemsRaise(payload) THEN Raise(c1)
                           ELSE BroadcastEach(c1, env, "NewTeamRadio", CaptureItems(payload))
                      ELSE IF feed_name \in {"SessionStatus", "WeatherData", "TimingAppData"}
                      THEN Broadcast(c1, env, Envelope(feed_name, payload))
                      ELSE c1

RECURSIVE FeedUpdates(_, _, _)
FeedUpdates(ctx, env, feed_updates) ==
    IF feed_updates = <<>> THEN ctx
    ELSE FeedUpdates(FeedUpdate(ctx, env, Head(feed_updates)), env, Tail(feed_updates))

\* _handle_feed_update(feed_updates, timestamp)
HandleFeedUpdate(ctx, env, feed_updates) == FeedUpdates(ctx, env, feed_updates)

\* a frame text that json.loads rejects
BadText == [t |-> "badtext", v |-> 0]

\* _process_message(raw_data_string, timestamp); data is what json.loads returns
ProcessMessage(ctx, env, data) ==
    IF data = BadText THEN Raise(ctx)
    ELSE IF ~IsDict(data) THEN ctx
    ELSE IF Has(data, "R") THEN HandleSnapshot(ctx, env, data.v["R"])
    ELSE IF Has(data, "M") /\ IsList(data.v["M"]) /\ Truthy(data.v["M"])
         THEN HandleFeedUpdate(ctx, env, data.v["M"].v)
    ELSE ctx

\* _listen, BINARY message, and replay_from_file, "binary" entry: decode, and
\* `if decoded:` store it as CarData and broadcast a CarData envelope
BinaryMessage(ctx, env, data) ==
    LET decoded == DecodeAndDecompress(data)
    IN  IF Truthy(decoded)
        THEN Broadcast([ctx EXCEPT !.st = UpdateState(ctx.st, "CarData", decoded)],
                       env, Envelope("CarData", decoded))
        ELSE ctx

----------------------------------------------------------------------------
(* The frames of a run.  The frames of one run are drawn from one group, named  *)
(* by focus: the frames that bear on LapCount, or those that bear on the pits.  *)

\* the number of frames of a run
MaxFrames == 3
\* the highest NumberOfLaps a delta carries
MaxLapNo == 2
\* the broadcast calls of one frame whose send may raise
MaxFailAt == 1

\* the ticks that may pass between two readings of a clock
Elapsed == {0, 1}
\* the subscribers there are
ClientIds == {"c1"}

\* the connections accepted by websocket_endpoint when sends are followed one by one
Subscribers == {"s1", "s2"}

\* no broadcast yet
NoBroadcast == [active |-> FALSE, msg |-> None, i |-> 0, sent |-> <<>>,
                stayed |-> {}, failed |-> {}, ended |-> "none"]

\* the endpoints before any connection is accepted
NoFan == [pc |-> [c \in Subscribers |-> "accepted"],
          open |-> [c \in Subscribers |-> TRUE],
          log |-> [c \in Subscribers |-> <<>>],
          bc |-> NoBroadcast]

\* the connection loop not started
NoConn == [phase |-> "none"]

\* main() has not left its gather: the tasks of the event loop run
Alive == conn.phase \notin {"stopping", "exited"}

DriverNumbers == {"16", "44"}
\* no open InPit event; an open one is <<t0>>, the timestamp of its frame
NoPit == <<>>

\* no frame handled yet
NoFrame == [frame |-> None, ts |-> None, failAt |-> 0, raised |-> FALSE, out |-> <<>>]

Msg(utc, text) ==
    Obj(("Utc" :> Str(utc)) @@ ("Category" :> Str("Flag")) @@ ("Message" :> Str(text)))
Msg1 == Msg("t1", "GREEN")
Msg2 == Msg("t2", "YELLOW")

Line(driver_number, delta) == Obj("Lines" :> Obj(driver_number :> delta))
Laps(n) == Obj("NumberOfLaps" :> Num(n))
InPitTrue == Obj("InPit" :> Bool(TRUE))
PitOutTrue == Obj("PitOut" :> Bool(TRUE))

Session(name, key) ==
    Obj(("Key" :> Num(key)) @@
        ("Meeting" :> Obj(("Key" :> Num(key + 1)) @@
                          ("Circuit" :> Obj("ShortName" :> Str(name))))))
\* a SessionInfo payload without Meeting
SessionNoName == Obj("Key" :> Num(1))

JunkLapCount == Obj(("CurrentLap" :> Num(999)) @@ ("TotalLaps" :> Num(7)))

Update(feed_name, payload) ==
    Obj(("M" :> Str("feed")) @@ ("A" :> Lst(<<Str(feed_name), payload>>)))
MFrame(updates) == Obj("M" :> Lst(updates))
RFrame(snapshot_data) == Obj("R" :> snapshot_data)

\* frames that bear on LapCount: SessionInfo, LapCount and NumberOfLaps, as
\* incremental and as snapshot frames
LapCountFrames ==
    { MFrame(<<Update("SessionInfo", Session("Silverstone", 1))>>),
      MFrame(<<Update("SessionInfo", Session("Nowhere", 5))>>),
      MFrame(<<Update("SessionInfo", SessionNoName)>>),
      MFrame(<<Update("LapCount", JunkLapCount)>>),
      MFrame(<<Update("LapCount", JunkLapCount),
               Update("TimingData", Line("16", Laps(1)))>>),
      RFrame(Obj("SessionInfo.z" :> Z(Session("Monte Carlo", 3)))),
      RFrame(Obj(("SessionInfo" :> SessionNoName) @@ ("LapCount" :> JunkLapCount))),
      RFrame(Obj("LapCount.z" :> Z(JunkLapCount))),
      RFrame(Obj("TimingData" :> Line("44", Laps(MaxLapNo)))) }
      \cup { MFrame(<<Update("TimingData", Line("44", Laps(n)))>>) : n \in 1..MaxLapNo }

\* frames that bear on the pits: InPit, PitOut and NumberOfLaps
PitFrames ==
    { MFrame(<<Update("TimingData", Line("16", InPitTrue))>>),
      MFrame(<<Update("TimingData", Line("16", PitOutTrue))>>),
      MFrame(<<Update("TimingData",
                      Obj("Lines" :> Obj(("16" :> PitOutTrue) @@ ("44" :> InPitTrue))))>>),
      MFrame(<<Update("TimingData", Line("16", Laps(MaxLapNo)))>>),
      RFrame(Obj("TimingData" :> Line("16", InPitTrue))) }

\* "1:14.260", "LAP" and ""
LapTimeOk == TStr(<<"1", ":", "1", "4", ".", "2", "6", "0">>)
LapTimeBad == TStr(<<"L", "A", "P">>)
LapTimeEmpty == TStr(<<>>)
LastLap(value) == Obj("LastLapTime" :> Obj("Value" :> value))
LapDone(n, value) ==
    Obj(("NumberOfLaps" :> Num(n)) @@ ("LastLapTime" :> Obj("Value" :> value)))

\* frames that bear on LapHistory: LastLapTime with and without NumberOfLaps
LapFrames ==
    { MFrame(<<Update("TimingData", Line("44", LastLap(LapTimeOk)))>>),
      MFrame(<<Update("TimingData", Line("44", LastLap(LapTimeBad)))>>),
      MFrame(<<Update("TimingData", Line("44", LastLap(LapTimeEmpty)))>>),
      MFrame(<<Update("TimingData",
                      Obj("Lines" :> Obj(("16" :> LapDone(1, LapTimeOk)) @@
                                         ("44" :> LastLap(LapTimeOk)))))>>) }
      \cup { MFrame(<<Update("TimingData", Line("44", LapDone(n, LapTimeOk)))>>) :
                n \in 0..MaxLapNo }

\* a decoded CarData payload
CarSample == Obj("Entries" :> Lst(<<Num(1)>>))

\* frames that bear on what is sent out: compressed snapshots, a pit entry, and
\* a delta that ends a pit stop and a lap at once
EgressFrames ==
    { RFrame(Obj("CarData.z" :> Z(CarSample))),
      RFrame(Obj("CarData.z" :> Z(EmptyObj))),
      MFrame(<<Update("TimingData", Line("44", InPitTrue))>>),
      MFrame(<<Update("TimingData",
                      Line("44", Obj(("PitOut" :> Bool(TRUE)) @@
                                     ("NumberOfLaps" :> Num(1)) @@
                                     ("LastLapTime" :> Obj("Value" :> LapTimeOk)))))>>) }

Capture(path) == Obj(("Utc" :> Str("t1")) @@ ("Path" :> Str(path)))
WeatherSample == Obj("AirTemp" :> Str("21.5"))

\* frames that bear on how the elements of a frame are dispatched: TeamRadio
\* updates of the three shapes, elements that fail the validation before valid
\* ones, a .z feed that does not decode before a plain feed, a snapshot that
\* carries a message again, and .z feed names
DispatchFrames ==
    { MFrame(<<Update("TeamRadio", Obj("Captures" :> Lst(<<Capture("p1")>>)))>>),
      MFrame(<<Update("TeamRadio", Lst(<<Capture("p2")>>)),
               Update("WeatherData", WeatherSample)>>),
      MFrame(<<Update("TeamRadio", Capture("p1"))>>),
      MFrame(<<Obj("M" :> Str("feed")),
               Obj(("M" :> Str("feed")) @@ ("A" :> Lst(<<Str("WeatherData")>>))),
               Update("WeatherData", WeatherSample),
               Update("RaceControlMessages", Obj("Messages" :> Lst(<<Msg1>>)))>>),
      RFrame(Obj(("SessionInfo.z" :> Str("not base64")) @@ ("WeatherData" :> WeatherSample))),
      RFrame(Obj("RaceControlMessages" :> Obj("Messages" :> Lst(<<Msg1>>)))),
      MFrame(<<Update("CarData.z", Z(CarSample))>>),
      RFrame(Obj("Position.z" :> Z(CarSample))) }

FramesOf(group) ==
    CASE group = "LapCount" -> LapCountFrames
      [] group = "DriversInPits" -> PitFrames
      [] group = "LapHistory" -> LapFrames
      [] group = "Egress" -> EgressFrames
      [] group = "Dispatch" -> DispatchFrames
      [] OTHER -> {}

\* the TimingData deltas of a frame that carry Lines, in order
TimingDeltas(data) ==
    IF IsDict(data) /\ ~Has(data, "R") /\ Has(data, "M") /\ IsList(data.v["M"])
    THEN LET ups == SelectSeq(data.v["M"].v,
                       LAMBDA u : ValidUpdate(u) /\ u.v["A"].v[1] = Str("TimingData")
                                    /\ HasLines(u.v["A"].v[2]))
         IN  [i \in 1..Len(ups) |-> ups[i].v["A"].v[2]]
    ELSE <<>>

\* some delta of the frame carries flag=true for some driver
Carries(data, flag) ==
    \E i \in 1..Len(TimingDeltas(data)) :
        \E d \in DOMAIN TimingDeltas(data)[i].v["Lines"].v :
            Get(TimingDeltas(data)[i].v["Lines"].v[d], flag, None) = Bool(TRUE)

\* the handler of the frame calls datetime.now()
ReadsClock(data) == Carries(data, "InPit")
\* the handler of the frame uses the frame's timestamp
UsesTimestamp(data) == Carries(data, "InPit") \/ Carries(data, "PitOut")

RECURSIVE OpenPits(_, _, _, _)
\* the open InPit events after the lines of one delta, visited in order
OpenPits(open, lines, drivers, ts) ==
    IF drivers = <<>> THEN open
    ELSE LET d == Head(drivers)
             o1 == IF Get(lines.v[d], "InPit", None) = Bool(TRUE) /\ open[d] = NoPit
                   THEN [open EXCEPT ![d] = <<ts>>] ELSE open
             o2 == IF Get(lines.v[d], "PitOut", None) = Bool(TRUE)
                   THEN [o1 EXCEPT ![d] = NoPit] ELSE o1
         IN  OpenPits(o2, lines, Tail(drivers), ts)

RECURSIVE OpenPitsAfter(_, _, _)
\* the open InPit events after the TimingData deltas of a frame that arrived at ts
OpenPitsAfter(open, deltas, ts) ==
    IF deltas = <<>> THEN open
    ELSE OpenPitsAfter(OpenPits(open, Head(deltas).v["Lines"],
                                Keys(Head(deltas).v["Lines"]), ts),
                       Tail(deltas), ts)

\* one frame text handed to _process_message with timestamp ts, the wall clock
\* reading `clock` inside the handler and the failAt-th broadcast raising
Handle(data, ts, clock, failAt) ==
    LET env == [ts |-> Date(ts), clock |-> clock, failAt |-> failAt, clients |-> clients]
    IN  \E res \in {ProcessMessage(Ctx(state), env, data)} :
        /\ state' = res.st
        /\ hist' = [frame |-> data, ts |-> Date(ts), failAt |-> failAt,
                    raised |-> res.raised, out |-> res.out]
        /\ inpit' = OpenPitsAfter(inpit, TimingDeltas(data), ts)
        /\ nframes' = nframes + 1
        /\ now' = clock

\* the broadcast calls of the frame that can be the one that raises (0: none)
FailChoices == IF clients = <<>> THEN {0} ELSE 0..MaxFailAt

\* the ticks that pass before a clock is read, when the frame reads it
Ticks(read) == IF read THEN Elapsed ELSE {0}

\* some delta of the frame carries a LastLapTime for some driver
CarriesLapTime(data) ==
    \E i \in 1..Len(TimingDeltas(data)) :
        \E d \in DOMAIN TimingDeltas(data)[i].v["Lines"].v :
            Has(TimingDeltas(data)[i].v["Lines"].v[d], "LastLapTime")

\* the ticks between the previous frame and this one: a frame with a lap time
\* arrives one tick after the previous frame
Gaps(data) ==
    IF UsesTimestamp(data) THEN Elapsed
    ELSE IF CarriesLapTime(data) THEN {1} ELSE {0}

\* one frame text handed to _process_message without a timestamp
HandleNoTimestamp(data, clock, failAt) ==
    LET env == [ts |-> None, clock |-> clock, failAt |-> failAt, clients |-> clients]
    IN  \E res \in {ProcessMessage(Ctx(state), env, data)} :
        /\ state' = res.st
        /\ hist' = [frame |-> data, ts |-> None, failAt |-> failAt,
                    raised |-> res.raised, out |-> res.out]
        /\ inpit' = OpenPitsAfter(inpit, TimingDeltas(data), clock)
        /\ nframes' = nframes + 1
        /\ now' = clock

Init ==
    /\ state = InitialState
    /\ clients = <<>>
    /\ \/ mode \in {"LIVE", "REPLAY"} /\ focus \in {"LapCount", "DriversInPits", "LapHistory"}
       \/ mode = "CALL" /\ focus = "LapHistory"
    /\ now = 0
    /\ applied = <<>>
    /\ hist = NoFrame
    /\ nframes = 0
    /\ inpit = [d \in DriverNumbers |-> NoPit]
    /\ fan = NoFan
    /\ conn = NoConn

\* _listen: a TEXT message arrives on the live connection; its timestamp is
\* datetime.now() on arrival
ListenText ==
    /\ mode = "LIVE"
    /\ nframes < MaxFrames
    /\ \E data \in FramesOf(focus) :
         \E dt \in Gaps(data), lag \in Ticks(ReadsClock(data)), failAt \in FailChoices :
                Handle(data, now + dt, now + dt + lag, failAt)
    /\ UNCHANGED <<clients, mode, focus, applied, fan, conn>>

\* replay_from_file: the next line of the capture is a text entry; its timestamp
\* is the entry's, the wall clock runs on its own
ReplayText ==
    /\ mode = "REPLAY"
    /\ nframes < MaxFrames
    /\ \E data \in FramesOf(focus) :
         \E dt \in Gaps(data), lag \in Ticks(ReadsClock(data)), failAt \in FailChoices :
                Handle(data, (IF hist.ts = None THEN 0 ELSE hist.ts.v) + dt,
                       now + lag, failAt)
    /\ UNCHANGED <<clients, mode, focus, applied, fan, conn>>

\* _process_message(raw_data_string) called with the default timestamp=None
CallText ==
    /\ mode = "CALL"
    /\ nframes < MaxFrames
    /\ \E data \in FramesOf(focus) :
         \E lag \in Ticks(ReadsClock(data)), failAt \in FailChoices :
                HandleNoTimestamp(data, now + lag, failAt)
    /\ UNCHANGED <<clients, mode, focus, applied, fan, conn>>

\* websocket_endpoint: a subscriber is accepted and registered
ClientConnect ==
    /\ \E c \in ClientIds :
         /\ \A i \in 1..Len(clients) : clients[i] /= c
         /\ clients' = Append(clients, c)
    /\ UNCHANGED <<state, mode, now, focus, applied, hist, nframes, inpit, fan, conn>>

\* websocket_endpoint: WebSocketDisconnect; remove_client
ClientDisconnect ==
    /\ \E i \in 1..Len(clients) :
         clients' = SubSeq(clients, 1, i - 1) \o SubSeq(clients, i + 1, Len(clients))
    /\ UNCHANGED <<state, mode, now, focus, applied, hist, nframes, inpit, fan, conn>>

Next == ListenText \/ ReplayText \/ CallText \/ ClientConnect \/ ClientDisconnect

\* a live run over the frames that bear on what is sent out
InitEgress ==
    /\ state = InitialState
    /\ clients = <<>>
    /\ mode = "LIVE"
    /\ focus = "Egress"
    /\ now = 0
    /\ applied = <<>>
    /\ hist = NoFrame
    /\ nframes = 0
    /\ inpit = [d \in DriverNumbers |-> NoPit]
    /\ fan = NoFan
    /\ conn = NoConn

NextEgress == ListenText \/ ClientConnect \/ ClientDisconnect

SpecEgress == InitEgress /\ [][NextEgress]_vars

\* a live run or a replay over the frames that bear on the dispatch of a
\* frame's elements
InitDispatch ==
    /\ state = InitialState
    /\ clients = <<>>
    /\ mode \in {"LIVE", "REPLAY"}
    /\ focus = "Dispatch"
    /\ now = 0
    /\ applied = <<>>
    /\ hist = NoFrame
    /\ nframes = 0
    /\ inpit = [d \in DriverNumbers |-> NoPit]
    /\ fan = NoFan
    /\ conn = NoConn

\* the data of the binary messages of a run: one that decodes, one that does not
BinaryFrames == { Z(CarSample), Str("not base64") }

\* one binary message handled
HandleBinary(data, ts, clock, failAt) ==
    LET env == [ts |-> Date(ts), clock |-> clock, failAt |-> failAt, clients |-> clients]
    IN  \E res \in {BinaryMessage(Ctx(state), env, data)} :
        /\ state' = res.st
        /\ hist' = [frame |-> data, ts |-> Date(ts), failAt |-> failAt,
                    raised |-> res.raised, out |-> res.out]
        /\ nframes' = nframes + 1
        /\ now' = clock
        /\ UNCHANGED inpit

\* _listen: a BINARY message arrives on the live connection
ListenBinary ==
    /\ mode = "LIVE"
    /\ nframes < MaxFrames
    /\ \E data \in BinaryFrames, failAt \in FailChoices : HandleBinary(data, now, now, failAt)
    /\ UNCHANGED <<clients, mode, focus, applied, fan, conn>>

\* replay_from_file: the next line of the capture is a binary entry
ReplayBinary ==
    /\ mode = "REPLAY"
    /\ nframes < MaxFrames
    /\ \E data \in BinaryFrames, failAt \in FailChoices :
            HandleBinary(data, IF hist.ts = None THEN 0 ELSE hist.ts.v, now, failAt)
    /\ UNCHANGED <<clients, mode, focus, applied, fan, conn>>

NextDispatch ==
    \/ ListenText \/ ListenBinary
    \/ ReplayText \/ ReplayBinary
    \/ ClientConnect \/ ClientDisconnect

SpecDispatch == InitDispatch /\ [][NextDispatch]_vars

\* a live run over the frames that bear on LapHistory
InitLapRun ==
    /\ state = InitialState
    /\ clients = <<>>
    /\ mode = "LIVE"
    /\ focus = "LapHistory"
    /\ now = 0
    /\ applied = <<>>
    /\ hist = NoFrame
    /\ nframes = 0
    /\ inpit = [d \in DriverNumbers |-> NoPit]
    /\ fan = NoFan
    /\ conn = NoConn

NextLapRun == ListenText \/ ClientConnect \/ ClientDisconnect

SpecLapRun == InitLapRun /\ [][NextLapRun]_vars

Spec == Init /\ [][Next]_vars

----------------------------------------------------------------------------
(* update_state driven directly: one slot per run, any sequence of payloads *)

\* the number of update_state calls of a direct run
MaxApply == 3

MergeLeaves == {Num(1), Lst(<<Num(1)>>), Lst(<<Num(2)>>)}
MergeInner ==
    {Obj("x" :> l) : l \in MergeLeaves}
        \cup {Obj("y" :> Num(2)), Obj("x" :> Obj("y" :> Num(1))), Obj("x" :> Obj("x" :> Num(2)))}
\* payloads of a merge-policy feed: objects, and one list that update_state drops
MergePayloads ==
    {Obj("a" :> val) : val \in MergeLeaves \cup MergeInner}
        \cup {Obj(("a" :> Obj("y" :> Num(1))) @@ ("b" :> Lst(<<Num(1)>>))),
              Obj("b" :> Num(2)), EmptyObj, Lst(<<Num(1)>>)}

\* a message without Message
MsgBad == Obj(("Utc" :> Str("t3")) @@ ("Category" :> Str("Flag")))
\* payloads of RaceControlMessages, in the shapes update_state tells apart
RcmPayloads ==
    { Obj("Messages" :> Lst(<<Msg1, MsgBad, Msg2>>)),
      Obj("Messages" :> Lst(<<Msg2>>)),
      Obj("Messages" :> Obj(("1" :> Msg1) @@ ("2" :> Msg2))),
      Obj("Messages" :> Obj("2" :> MsgBad)),
      Obj("Messages" :> Str("x")),
      Obj("2" :> Msg2),
      Lst(<<Msg2, Msg1>>),
      Msg1,
      MsgBad,
      Str("x") }

TeamRadioPayloads ==
    { Obj("Captures" :> Lst(<<Capture("p1"), Capture("p2")>>)),
      Obj("Captures" :> Obj("1" :> Capture("p1"))),
      Lst(<<Capture("p2")>>),
      Capture("p1") }

ReplaceFeeds == {"WeatherData", "TrackStatus"}
ReplacePayloads == {Obj("a" :> Num(1)), Obj("b" :> Num(2)), EmptyObj, Lst(<<Num(1)>>)}

StoreFeeds == MergeFeeds \cup {"RaceControlMessages", "TeamRadio"} \cup ReplaceFeeds

PayloadsOf(feed_name) ==
    CASE feed_name \in MergeFeeds           -> MergePayloads
      [] feed_name = "RaceControlMessages"  -> RcmPayloads
      [] feed_name = "TeamRadio"            -> TeamRadioPayloads
      [] OTHER                              -> ReplacePayloads

InitStore ==
    /\ state = InitialState
    /\ clients = <<>>
    /\ mode = "STORE"
    /\ now = 0
    /\ focus \in StoreFeeds
    /\ applied = <<>>
    /\ hist = NoFrame
    /\ nframes = 0
    /\ inpit = [d \in DriverNumbers |-> NoPit]
    /\ fan = NoFan
    /\ conn = NoConn

\* one call update_state(focus, new_data)
UpdateStateCall ==
    /\ Len(applied) < MaxApply
    /\ \E new_data \in PayloadsOf(focus) :
          /\ state' = UpdateState(state, focus, new_data)
          /\ applied' = Append(applied, new_data)
    /\ UNCHANGED <<clients, mode, now, focus, hist, nframes, inpit, fan, conn>>

NextStore == UpdateStateCall

SpecStore == InitStore /\ [][NextStore]_vars

----------------------------------------------------------------------------
(* The fan-out send by send: StateManager.broadcast and websocket_endpoint as    *)
(* coroutines of one event loop.  A coroutine runs from one await to the next    *)
(* without interruption; send_text writes the message when it is called, on an   *)
(* open connection, and suspends its caller; on a closed connection it raises.   *)

\* the number of RaceControlMessages updates of a run
MaxEnvelopes == 2

FanPayloads == { Obj("Messages" :> Lst(<<Msg1>>)), Obj("Messages" :> Lst(<<Msg2>>)) }

\* the members of self.clients
Registered(registry) == { registry[i] : i \in 1..Len(registry) }

\* list.remove(websocket): the list without the first occurrence of c
RemoveClient(registry, c) ==
    LET i == CHOOSE j \in 1..Len(registry) :
                 registry[j] = c /\ \A k \in 1..(j - 1) : registry[k] /= c
    IN  SubSeq(registry, 1, i - 1) \o SubSeq(registry, i + 1, Len(registry))

\* an endpoint that registers the connection and sends no initial frame
AcceptedNoFrame(f, registry, st, c) ==
    [f EXCEPT !.pc[c] = "receiving"]

\* websocket_endpoint after accept(): add_client, then send_text of the full
\* state; what becomes of the endpoints f
Accepted(f, registry, st, c) ==
    IF f.open[c]
    THEN [f EXCEPT !.pc[c] = "sending", !.log[c] = Append(@, st)]
    ELSE [f EXCEPT !.pc[c] = "failed"]

InitFanout ==
    /\ state = InitialState
    /\ clients = <<>>
    /\ mode = "FANOUT"
    /\ now = 0
    /\ focus = "RaceControlMessages"
    /\ applied = <<>>
    /\ hist = NoFrame
    /\ nframes = 0
    /\ inpit = [d \in DriverNumbers |-> NoPit]
    /\ fan = NoFan
    /\ conn = NoConn

\* websocket_endpoint: accept() has returned; add_client and the initial send
Accept ==
    /\ Alive
    /\ \E c \in Subscribers :
         /\ fan.pc[c] = "accepted"
         /\ c \notin Registered(clients)
         /\ clients' = Append(clients, c)
         /\ fan' = Accepted(fan, clients, state, c)
    /\ UNCHANGED <<state, mode, now, focus, applied, hist, nframes, inpit, conn>>

\* websocket_endpoint: the initial send_text returns, or raises when the peer
\* has closed meanwhile (the exception leaves the endpoint: it is outside the try)
InitialSent ==
    /\ Alive
    /\ \E c \in Subscribers :
         /\ fan.pc[c] = "sending"
         /\ \/ fan' = [fan EXCEPT !.pc[c] = "receiving"]
            \/ ~fan.open[c] /\ fan' = [fan EXCEPT !.pc[c] = "failed"]
    /\ UNCHANGED <<state, clients, mode, now, focus, applied, hist, nframes, inpit, conn>>

\* the peer of a connection closes it
PeerClose ==
    /\ Alive
    /\ \E c \in Subscribers :
         /\ fan.open[c]
         /\ fan.pc[c] \in {"accepted", "sending", "receiving"}
         /\ fan' = [fan EXCEPT !.open[c] = FALSE]
    /\ UNCHANGED <<state, clients, mode, now, focus, applied, hist, nframes, inpit, conn>>

\* websocket_endpoint: receive_text raises WebSocketDisconnect; remove_client
Disconnect ==
    /\ Alive
    /\ \E c \in Subscribers :
         /\ fan.pc[c] = "receiving"
         /\ ~fan.open[c]
         /\ clients' = RemoveClient(clients, c)
         /\ fan' = [fan EXCEPT !.pc[c] = "closed",
                                 !.bc.stayed = IF fan.bc.active THEN @ \ {c} ELSE @]
    /\ UNCHANGED <<state, mode, now, focus, applied, hist, nframes, inpit, conn>>

\* _handle_feed_update, RaceControlMessages: update_state, then broadcast up to
\* its first send: json.dumps and the iterator over self.clients
Ingest ==
    /\ Alive
    /\ ~fan.bc.active
    /\ Len(applied) < MaxEnvelopes
    /\ \E payload \in FanPayloads :
         /\ state' = UpdateState(state, "RaceControlMessages", payload)
         /\ applied' = Append(applied, payload)
         /\ fan' = [fan EXCEPT !.bc = [active |-> TRUE,
                                       msg |-> Envelope("RaceControlMessages", payload),
                                       i |-> 0, sent |-> <<>>,
                                       stayed |-> Registered(clients),
                                       failed |-> {}, ended |-> "none"]]
    /\ UNCHANGED <<clients, mode, now, focus, hist, nframes, inpit, conn>>

\* a connection that puts each frame in front of those written before
SendTextInFront(written, json_message) == <<json_message>> \o written

\* client.send_text(json_message) on an open connection: the frames written to
\* the connection so far, followed by this one
SendText(written, json_message) == Append(written, json_message)

\* broadcast: the list iterator yields the next client and send_text is called
BroadcastSend ==
    /\ Alive
    /\ fan.bc.active
    /\ fan.bc.i < Len(clients)
    /\ LET c == clients[fan.bc.i + 1]
       IN  IF fan.open[c]
           THEN fan' = [fan EXCEPT !.log[c] = SendText(@, fan.bc.msg),
                                   !.bc.i = @ + 1,
                                   !.bc.sent = Append(@, c)]
           ELSE fan' = [fan EXCEPT !.bc.active = FALSE, !.bc.failed = @ \cup {c},
                                   !.bc.ended = "raised"]
    /\ UNCHANGED <<state, clients, mode, now, focus, applied, hist, nframes, inpit, conn>>

\* broadcast: the iterator is exhausted
BroadcastEnd ==
    /\ Alive
    /\ fan.bc.active
    /\ fan.bc.i >= Len(clients)
    /\ fan' = [fan EXCEPT !.bc.active = FALSE, !.bc.ended = "done"]
    /\ UNCHANGED <<state, clients, mode, now, focus, applied, hist, nframes, inpit, conn>>

NextFanout ==
    Accept \/ InitialSent \/ PeerClose \/ Disconnect \/ Ingest \/ BroadcastSend \/ BroadcastEnd

SpecFanout == InitFanout /\ [][NextFanout]_vars

----------------------------------------------------------------------------
(* Shutdown: main() gathers the ingestion task and the server task, and its      *)
(* finally block writes the store to final_structured_state.json.  The block     *)
(* runs when main() is cancelled by an interrupt, with the subscribers as they   *)
(* are, or after the server task has ended: a server that stops closes its       *)
(* connections, and an endpoint waiting in receive_text sees the disconnect.     *)

RECURSIVE DateTimeEncode(_)
\* json.dump(final_state, f, cls=DateTimeEncoder): the tree the file holds
DateTimeEncode(x) ==
    CASE x.t = "datetime" -> Iso(x.v)
      [] x.t = "dict" -> Obj([k \in DOMAIN x.v |-> DateTimeEncode(x.v[k])])
      [] x.t = "list" -> Lst([i \in 1..Len(x.v) |-> DateTimeEncode(x.v[i])])
      [] OTHER -> x

\* main() while both tasks run; via: how the finally block was reached
Running == [phase |-> "running", file |-> None, via |-> "none"]

InitShutdown ==
    /\ state = InitialState
    /\ clients = <<>>
    /\ mode = "FANOUT"
    /\ now = 0
    /\ focus = "RaceControlMessages"
    /\ applied = <<>>
    /\ hist = NoFrame
    /\ nframes = 0
    /\ inpit = [d \in DriverNumbers |-> NoPit]
    /\ fan = NoFan
    /\ conn = Running

RECURSIVE RemoveAll(_, _)
\* remove_client for each connection of the set, whatever the order
RemoveAll(registry, cs) ==
    IF cs = {} THEN registry
    ELSE LET c == CHOOSE x \in cs : TRUE
         IN  RemoveAll(RemoveClient(registry, c), cs \ {c})

\* the server task ends: every connection is closed; the endpoints waiting in
\* receive_text get WebSocketDisconnect and call remove_client, an endpoint
\* whose initial send_text is pending fails in it; the broadcast in progress,
\* if any, ends with the ingestion task
ServerStops ==
    /\ conn.phase = "running"
    /\ LET receiving == { c \in Subscribers : fan.pc[c] = "receiving" }
       IN  /\ clients' = RemoveAll(clients, receiving)
           /\ fan' = [fan EXCEPT
                        !.open = [c \in Subscribers |-> FALSE],
                        !.pc = [c \in Subscribers |->
                                  CASE fan.pc[c] = "receiving" -> "closed"
                                    [] fan.pc[c] = "sending" -> "failed"
                                    [] OTHER -> fan.pc[c]],
                        !.bc.active = FALSE]
    /\ conn' = [conn EXCEPT !.phase = "stopping", !.via = "server"]
    /\ UNCHANGED <<state, mode, now, focus, applied, hist, nframes, inpit>>

\* the finally block of main(): get_full_state and json.dump to the file; it is
\* reached after the server task ended, or by the cancellation of main()
WriteFinalState ==
    /\ conn.phase \in {"running", "stopping"}
    /\ conn' = [conn EXCEPT !.phase = "exited", !.file = DateTimeEncode(state),
                            !.via = IF conn.phase = "running" THEN "interrupt" ELSE @]
    /\ UNCHANGED <<state, clients, mode, now, focus, applied, hist, nframes, inpit, fan>>

NextShutdown ==
    \/ Accept \/ InitialSent \/ PeerClose \/ Disconnect
    \/ Ingest \/ BroadcastSend \/ BroadcastEnd
    \/ ServerStops \/ WriteFinalState

SpecShutdown == InitShutdown /\ [][NextShutdown]_vars

----------------------------------------------------------------------------
(* The live connection: connect_and_process_live, its reconnect loop and the     *)
(* frames _listen hands to _process_message on the connection it holds.          *)

\* the connection attempts of a run
MaxAttempts == 8

MAX_RETRY_DELAY == 600
INITIAL_RETRY_DELAY == 5

\* the frames of a live connection: a valid update, a text that is not JSON
ConnFrames ==
    { MFrame(<<Update("RaceControlMessages", Obj("Messages" :> Lst(<<Msg1>>)))>>),
      BadText }

\* a backoff that doubles without a cap
BackoffNoCap(retry_delay) == retry_delay * 2

\* retry_delay = min(retry_delay * 2, self.MAX_RETRY_DELAY)
Backoff(retry_delay) ==
    IF retry_delay * 2 < MAX_RETRY_DELAY THEN retry_delay * 2 ELSE MAX_RETRY_DELAY

\* a loop that is left when a pass ends
GiveUp(c) == [c EXCEPT !.phase = "stopped", !.session = "closed"]

\* the finally block: asyncio.sleep(retry_delay), then the backoff; the loop is
\* back at its head.  wait is the length of the last sleep.
SleepAndBackoff(c) ==
    [c EXCEPT !.phase = "connecting", !.session = "closed", !.wait = c.retry_delay,
              !.retry_delay = Backoff(c.retry_delay)]

\* connect_and_process_live before its first attempt; id numbers the WebSocket
\* connections, fails counts the failed attempts while none has succeeded,
\* failedSince the failed attempts since the last connection (or the start)
StartConn ==
    [phase |-> "connecting", retry_delay |-> INITIAL_RETRY_DELAY, wait |-> 0,
     attempts |-> 0, fails |-> 0, fromStart |-> TRUE, id |-> 0, failedSince |-> 0,
     session |-> "none"]

\* a connection that keeps the retry delay the failures before it left
ConnectedNoReset(c) ==
    [c EXCEPT !.attempts = @ + 1, !.fromStart = FALSE, !.id = @ + 1, !.failedSince = 0,
              !.session = "open"]

\* ws_connect has returned: retry_delay = self.INITIAL_RETRY_DELAY
Connected(c) ==
    [c EXCEPT !.attempts = @ + 1, !.fromStart = FALSE, !.id = @ + 1, !.failedSince = 0,
              !.session = "open", !.retry_delay = INITIAL_RETRY_DELAY]

InitConnect ==
    /\ state = InitialState
    /\ clients = <<>>
    /\ mode = "LIVE"
    /\ now = 0
    /\ focus = "RaceControlMessages"
    /\ applied = <<>>
    /\ hist = NoFrame
    /\ nframes = 0
    /\ inpit = [d \in DriverNumbers |-> NoPit]
    /\ fan = NoFan
    /\ conn = StartConn

\* an attempt fails: the negotiation or ws_connect raises; except, then finally
ConnectFails ==
    /\ conn.phase = "connecting"
    /\ conn.attempts < MaxAttempts
    /\ conn' = SleepAndBackoff([conn EXCEPT !.attempts = @ + 1,
                                            !.fails = IF conn.fromStart THEN @ + 1 ELSE @,
                                            !.failedSince = @ + 1])
    /\ UNCHANGED <<state, clients, mode, now, focus, applied, hist, nframes, inpit, fan>>

\* an attempt succeeds: ws_connect returns, retry_delay is reset; _subscribe
\* returns and _listen starts, or _subscribe raises and the connection is left
ConnectSucceeds ==
    /\ conn.phase = "connecting"
    /\ conn.attempts < MaxAttempts
    /\ \/ conn' = [Connected(conn) EXCEPT !.phase = "listening"]
       \/ conn' = SleepAndBackoff(Connected(conn))
    /\ UNCHANGED <<state, clients, mode, now, focus, applied, hist, nframes, inpit, fan>>

\* _listen: a TEXT message on the connection; an exception of _process_message
\* leaves _listen and the `async with` of the connection, and is caught by the
\* except clauses of the loop
ConnListenText ==
    /\ conn.phase = "listening"
    /\ nframes < MaxFrames
    /\ \E data \in ConnFrames :
         /\ Handle(data, now, now, 0)
         /\ conn' = IF hist'.raised THEN SleepAndBackoff(conn) ELSE conn
    /\ UNCHANGED <<clients, mode, focus, applied, fan>>

\* _listen: the stream of messages ends (close, or an ERROR message and break);
\* the connection is closed gracefully and the finally block runs
ConnListenEnds ==
    /\ conn.phase = "listening"
    /\ conn' = SleepAndBackoff(conn)
    /\ UNCHANGED <<state, clients, mode, now, focus, applied, hist, nframes, inpit, fan>>

NextConnect == ConnectFails \/ ConnectSucceeds \/ ConnListenText \/ ConnListenEnds

SpecConnect == InitConnect /\ [][NextConnect]_vars

\* the event loop resumes the task when its sleep is over, and every attempt
\* ends, by an error or by a connection
SpecConnectFair == SpecConnect /\ WF_vars(ConnectFails \/ ConnectSucceeds)

----------------------------------------------------------------------------
(* One connection attempt step by step: negotiate, ws_connect, _subscribe,       *)
(* _listen.  steps lists what the attempt in progress (or the last one) did.     *)

\* what the negotiate request can end in: an HTTP or client error, a response
\* without a ConnectionToken, a response with one
NegotiateOutcomes == {"error", "missing", "token"}

\* the loop before its first attempt
StartAttempt ==
    [phase |-> "connecting", retry_delay |-> INITIAL_RETRY_DELAY, wait |-> 0,
     attempts |-> 0, session |-> "none", token |-> "none", steps |-> <<>>]

\* the except clauses and the finally block after a step of the attempt
EndOfAttempt(c) == SleepAndBackoff([c EXCEPT !.steps = Append(@, "wait")])

\* a negotiation that goes on to ws_connect whatever the response holds
NegotiatedAnyway(c, outcome) ==
    [c EXCEPT !.attempts = @ + 1, !.session = "open", !.token = outcome,
              !.steps = <<"negotiate">>, !.phase = "negotiated"]

\* the head of the loop body up to ws_connect: a new session, the negotiate
\* request, raise_for_status, `if not token: raise ConnectionError`
Negotiated(c, outcome) ==
    LET c1 == [c EXCEPT !.attempts = @ + 1, !.session = "open", !.token = outcome,
                        !.steps = <<"negotiate">>]
    IN  IF outcome = "token" THEN [c1 EXCEPT !.phase = "negotiated"]
        ELSE EndOfAttempt(c1)

InitAttempt ==
    /\ state = InitialState
    /\ clients = <<>>
    /\ mode = "LIVE"
    /\ now = 0
    /\ focus = "RaceControlMessages"
    /\ applied = <<>>
    /\ hist = NoFrame
    /\ nframes = 0
    /\ inpit = [d \in DriverNumbers |-> NoPit]
    /\ fan = NoFan
    /\ conn = StartAttempt

\* Step 1: Negotiate
AttemptNegotiate ==
    /\ conn.phase = "connecting"
    /\ conn.attempts < MaxAttempts
    /\ \E outcome \in NegotiateOutcomes : conn' = Negotiated(conn, outcome)
    /\ UNCHANGED <<state, clients, mode, now, focus, applied, hist, nframes, inpit, fan>>

\* Step 2: session.ws_connect returns and retry_delay is reset, or it raises
AttemptWsConnect ==
    /\ conn.phase = "negotiated"
    /\ LET c1 == [conn EXCEPT !.steps = Append(@, "ws_connect")]
       IN  \/ conn' = [c1 EXCEPT !.phase = "connected",
                                  !.retry_delay = INITIAL_RETRY_DELAY]
           \/ conn' = EndOfAttempt(c1)
    /\ UNCHANGED <<state, clients, mode, now, focus, applied, hist, nframes, inpit, fan>>

\* _subscribe: ws.send_str(subscribe_msg) returns, or raises
AttemptSubscribe ==
    /\ conn.phase = "connected"
    /\ LET c1 == [conn EXCEPT !.steps = Append(@, "subscribe")]
       IN  \/ conn' = [c1 EXCEPT !.phase = "listening"]
           \/ conn' = EndOfAttempt(c1)
    /\ UNCHANGED <<state, clients, mode, now, focus, applied, hist, nframes, inpit, fan>>

\* _listen: a TEXT message is handed to _process_message
AttemptListenText ==
    /\ conn.phase = "listening"
    /\ nframes < MaxFrames
    /\ \E data \in ConnFrames :
         /\ Handle(data, now, now, 0)
         /\ LET c1 == [conn EXCEPT !.steps = Append(@, "frame")]
            IN  conn' = IF hist'.raised THEN EndOfAttempt(c1) ELSE c1
    /\ UNCHANGED <<clients, mode, focus, applied, fan>>

\* _listen: the stream of messages ends
AttemptListenEnds ==
    /\ conn.phase = "listening"
    /\ conn' = EndOfAttempt(conn)
    /\ UNCHANGED <<state, clients, mode, now, focus, applied, hist, nframes, inpit, fan>>

NextAttempt ==
    \/ AttemptNegotiate \/ AttemptWsConnect \/ AttemptSubscribe
    \/ AttemptListenText \/ AttemptListenEnds

SpecAttempt == InitAttempt /\ [][NextAttempt]_vars

----------------------------------------------------------------------------
(* Recovery of the live connection: an upstream that misbehaves for a while      *)
(* (frames of any kind, lost connections, refused attempts) and from some point  *)
(* on accepts every connection and answers each subscription with a snapshot     *)
(* frame followed by incremental frames.                                         *)

\* the frames of the upstream before that point
ChaosFrames ==
    { MFrame(<<Update("TimingData", Line("16", InPitTrue))>>),
      MFrame(<<Update("TimingData", Line("16", PitOutTrue))>>),
      BadText }

\* the frames of the upstream after it: the snapshot that answers the
\* subscription, then incremental frames
GoodSnapshot == RFrame(Obj("WeatherData" :> Obj("AirTemp" :> Str("21.5"))))
GoodIncrement == MFrame(<<Update("WeatherData", Obj("AirTemp" :> Str("21.7")))>>)

\* a connection is listening at the start; fresh: no frame has arrived on the
\* connection yet; good: the upstream behaves from now on; resumed: an
\* incremental frame has been applied since
StartRecover ==
    [phase |-> "listening", retry_delay |-> INITIAL_RETRY_DELAY, wait |-> 0,
     session |-> "open", fresh |-> TRUE, good |-> FALSE, resumed |-> FALSE]

\* ws_connect has returned and _listen starts on the new connection
Reconnected(c) ==
    [c EXCEPT !.phase = "listening", !.session = "open", !.fresh = TRUE,
              !.retry_delay = INITIAL_RETRY_DELAY]

InitRecover ==
    /\ state = InitialState
    /\ clients = <<>>
    /\ mode = "LIVE"
    /\ now = 0
    /\ focus = "Recover"
    /\ applied = <<>>
    /\ hist = NoFrame
    /\ nframes = 0
    /\ inpit = [d \in DriverNumbers |-> NoPit]
    /\ fan = NoFan
    /\ conn = StartRecover

\* _listen: a TEXT message of the misbehaving upstream
ChaosListenText ==
    /\ ~conn.good
    /\ conn.phase = "listening"
    /\ nframes < MaxFrames
    /\ \E data \in ChaosFrames :
         /\ Handle(data, now, now, 0)
         /\ conn' = IF hist'.raised THEN SleepAndBackoff(conn)
                    ELSE [conn EXCEPT !.fresh = FALSE]
    /\ UNCHANGED <<clients, mode, focus, applied, fan>>

\* the connection is lost: _listen returns or raises, the finally block runs
ConnectionLost ==
    /\ ~conn.good
    /\ conn.phase = "listening"
    /\ conn' = SleepAndBackoff(conn)
    /\ UNCHANGED <<state, clients, mode, now, focus, applied, hist, nframes, inpit, fan>>

\* an attempt at the misbehaving upstream: refused, or connected
ChaosConnect ==
    /\ ~conn.good
    /\ conn.phase = "connecting"
    /\ \/ conn' = SleepAndBackoff(conn)
       \/ conn' = Reconnected(conn)
    /\ UNCHANGED <<state, clients, mode, now, focus, applied, hist, nframes, inpit, fan>>

\* from here on the upstream accepts connections and sends well-formed frames
UpstreamRecovers ==
    /\ ~conn.good
    /\ conn' = [conn EXCEPT !.good = TRUE]
    /\ UNCHANGED <<state, clients, mode, now, focus, applied, hist, nframes, inpit, fan>>

\* an attempt at the recovered upstream succeeds
GoodConnect ==
    /\ conn.good
    /\ conn.phase = "connecting"
    /\ conn' = Reconnected(conn)
    /\ UNCHANGED <<state, clients, mode, now, focus, applied, hist, nframes, inpit, fan>>

\* _listen: the next TEXT message of the recovered upstream: the snapshot on a
\* fresh connection, an incremental frame otherwise
GoodListenText ==
    /\ conn.good
    /\ conn.phase = "listening"
    /\ LET data == IF conn.fresh THEN GoodSnapshot ELSE GoodIncrement
           env == [ts |-> Date(now), clock |-> now, failAt |-> 0, clients |-> clients]
       IN  \E res \in {ProcessMessage(Ctx(state), env, data)} :
             /\ state' = res.st
             /\ hist' = [frame |-> data, ts |-> Date(now), failAt |-> 0,
                         raised |-> res.raised, out |-> res.out]
             /\ conn' = IF res.raised THEN SleepAndBackoff(conn)
                        ELSE [conn EXCEPT !.fresh = FALSE,
                                          !.resumed = @ \/ ~conn.fresh]
    /\ UNCHANGED <<clients, mode, now, focus, applied, nframes, inpit, fan>>

NextRecover ==
    \/ ChaosListenText \/ ConnectionLost \/ ChaosConnect \/ UpstreamRecovers
    \/ GoodConnect \/ GoodListenText

\* the recovered upstream keeps accepting connections and keeps sending frames,
\* and the event loop keeps running the ingestion task
SpecRecover ==
    InitRecover /\ [][NextRecover]_vars /\ WF_vars(GoodConnect) /\ WF_vars(GoodListenText)

----------------------------------------------------------------------------
(* A replay run: replay_from_file over one capture file, line by line.  The      *)
(* entry on line i carries the timestamp i.                                      *)

\* the lines of the longest capture file
MaxLines == 3

\* a line that is not JSON; a JSON object without 'timestamp'; a text entry
\* whose data is a frame text; a binary entry whose data decodes to `decoded`
GarbageLine == [kind |-> "garbage", data |-> None]
NoTimestampLine == [kind |-> "notimestamp", data |-> None]
TextLine(data) == [kind |-> "text", data |-> data]
BinaryLine(decoded) == [kind |-> "binary", data |-> Z(decoded)]

\* a binary entry whose data is not the base64 of a deflated JSON text
BadBinaryLine == [kind |-> "binary", data |-> Str("not base64")]

FileLines ==
    { GarbageLine, NoTimestampLine, BadBinaryLine,
      TextLine(MFrame(<<Update("RaceControlMessages", Obj("Messages" :> Lst(<<Msg1>>)))>>)),
      TextLine(BadText),
      BinaryLine(CarSample) }

RECURSIVE FilesOfLength(_)
FilesOfLength(n) ==
    IF n = 0 THEN {<<>>}
    ELSE { Append(f, l) : f \in FilesOfLength(n - 1), l \in FileLines }

Files == UNION { FilesOfLength(n) : n \in 0..MaxLines }

\* the entry has a timestamp and a type: it is handed to processing
WellFormed(line) == line.kind \in {"text", "binary"}

\* a run that ends at the first line whose handling raises
StopOnError(r, raised) ==
    IF raised THEN [r EXCEPT !.pos = @ + 1, !.visited = Append(@, r.pos + 1),
                             !.phase = "finished"]
    ELSE [r EXCEPT !.pos = @ + 1, !.visited = Append(@, r.pos + 1)]

\* the end of the body of `for line in f`, through the try block or through one
\* of its except clauses: the loop goes on with the next line
NextLine(r, raised) ==
    [r EXCEPT !.pos = @ + 1, !.visited = Append(@, r.pos + 1)]

\* replay_from_file is called; visited: the lines read, handed: the lines whose
\* entry was handed to processing
InitReplay ==
    /\ state = InitialState
    /\ clients = <<>>
    /\ mode = "REPLAY"
    /\ now = 0
    /\ focus = "File"
    /\ applied = <<>>
    /\ hist = NoFrame
    /\ nframes = 0
    /\ inpit = [d \in DriverNumbers |-> NoPit]
    /\ fan = NoFan
    /\ \E missing \in BOOLEAN, file \in Files :
         /\ missing => file = <<>>
         /\ conn = [phase |-> "start", missing |-> missing, file |-> file, pos |-> 0,
                    visited |-> <<>>, handed |-> <<>>]

\* `if not os.path.exists(filepath): return`, else the file is opened
ReplayOpen ==
    /\ conn.phase = "start"
    /\ conn' = [conn EXCEPT !.phase = IF conn.missing THEN "finished" ELSE "reading"]
    /\ UNCHANGED <<state, clients, mode, now, focus, applied, hist, nframes, inpit, fan>>

\* one pass of `for line in f`
ReplayLine ==
    /\ conn.phase = "reading"
    /\ conn.pos < Len(conn.file)
    /\ LET i == conn.pos + 1
           line == conn.file[i]
       IN  CASE line.kind = "text" ->
                  /\ Handle(line.data, i, now, 0)
                  /\ conn' = NextLine([conn EXCEPT !.handed = Append(@, i)], hist'.raised)
             [] line.kind = "binary" ->
                  /\ \E res \in {BinaryMessage(Ctx(state),
                                               [ts |-> Date(i), clock |-> now, failAt |-> 0,
                                                clients |-> clients],
                                               line.data)} :
                       /\ state' = res.st
                       /\ hist' = [frame |-> line.data, ts |-> Date(i), failAt |-> 0,
                                   raised |-> res.raised, out |-> res.out]
                       /\ conn' = NextLine([conn EXCEPT !.handed = Append(@, i)], res.raised)
                  /\ UNCHANGED <<now, nframes, inpit>>
             [] OTHER ->
                  /\ conn' = NextLine(conn, TRUE)
                  /\ UNCHANGED <<state, now, hist, nframes, inpit>>
    /\ UNCHANGED <<clients, mode, focus, applied, fan>>

\* the file is exhausted: "--- Replay finished ---"
ReplayFinished ==
    /\ conn.phase = "reading"
    /\ conn.pos >= Len(conn.file)
    /\ conn' = [conn EXCEPT !.phase = "finished"]
    /\ UNCHANGED <<state, clients, mode, now, focus, applied, hist, nframes, inpit, fan>>

NextReplay == ReplayOpen \/ ReplayLine \/ ReplayFinished

\* the event loop keeps running the replay task
SpecReplay == InitReplay /\ [][NextReplay]_vars /\ WF_vars(NextReplay)

----------------------------------------------------------------------------
(* The serving task: pull endpoints and subscriber connections, next to an       *)
(* ingestion task that applies updates to the store.                             *)

\* the updates the ingestion task applies in a run
MaxServe == 3

ServeUpdates ==
    { <<"RaceControlMessages", Obj("Messages" :> Lst(<<Msg1>>))>>,
      <<"WeatherData", Obj("AirTemp" :> Str("21.5"))>>,
      <<"SessionInfo", Session("Silverstone", 1)>> }

\* session_info.get("Key") and session_info.get("Meeting", {}).get("Key")
SessionKeyOf(st) == Get(st.v["SessionInfo"], "Key", None)
MeetingKeyOf(st) == Get(Get(st.v["SessionInfo"], "Meeting", EmptyObj), "Key", None)

\* get_race_control: `msg["session_key"] = ...; msg["meeting_key"] = ...` on each
\* message of state["RaceControlMessages"]; what the store holds afterwards
GetRaceControl(st) ==
    LET messages == st.v["RaceControlMessages"].v
        keyed(msg) == IF IsDict(msg)
                      THEN Put(Put(msg, "session_key", SessionKeyOf(st)),
                               "meeting_key", MeetingKeyOf(st))
                      ELSE msg
    IN  Put(st, "RaceControlMessages", Lst([i \in 1..Len(messages) |-> keyed(messages[i])]))

\* get_weather at wall-clock time `clock`: session_key, meeting_key and date are
\* written into state["WeatherData"]; what the store holds afterwards
GetWeather(st, clock) ==
    LET weather_data == st.v["WeatherData"]
    IN  IF ~Truthy(weather_data) THEN st
        ELSE Put(st, "WeatherData",
                 Put(Put(Put(weather_data, "session_key", SessionKeyOf(st)),
                         "meeting_key", MeetingKeyOf(st)),
                     "date", Iso(clock * TickMs)))

InitServe ==
    /\ state = InitialState
    /\ clients = <<>>
    /\ mode = "SERVE"
    /\ now = 0
    /\ focus = "Serve"
    /\ applied = <<>>
    /\ hist = NoFrame
    /\ nframes = 0
    /\ inpit = [d \in DriverNumbers |-> NoPit]
    /\ fan = NoFan
    /\ conn = NoConn

\* the ingestion task applies one update
ServeIngest ==
    /\ Len(applied) < MaxServe
    /\ \E u \in ServeUpdates :
         /\ state' = UpdateState(state, u[1], u[2])
         /\ applied' = Append(applied, u[2])
    /\ UNCHANGED <<clients, mode, now, focus, hist, nframes, inpit, fan, conn>>

\* GET /api/racecontrol
ServeRaceControl ==
    /\ state' = GetRaceControl(state)
    /\ UNCHANGED <<clients, mode, now, focus, applied, hist, nframes, inpit, fan, conn>>

\* GET /api/weather
ServeWeather ==
    /\ state' = GetWeather(state, now)
    /\ UNCHANGED <<clients, mode, now, focus, applied, hist, nframes, inpit, fan, conn>>

NextServe ==
    ServeIngest \/ ServeRaceControl \/ ServeWeather \/ ClientConnect \/ ClientDisconnect

SpecServe == InitServe /\ [][NextServe]_vars

----------------------------------------------------------------------------
(* Claims about update_state *)

Last(s) == s[Len(s)]

\* deep merge as the specification words it: per key of src, recurse when both
\* sides are objects, otherwise take src's value; keys src lacks keep dst's value
RECURSIVE RefMerge(_, _)
RefMerge(dst, src) ==
    Obj([k \in (DOMAIN dst.v) \cup (DOMAIN src.v) |->
            IF k \notin DOMAIN src.v THEN dst.v[k]
            ELSE IF k \in DOMAIN dst.v /\ IsDict(dst.v[k]) /\ IsDict(src.v[k])
                 THEN RefMerge(dst.v[k], src.v[k])
                 ELSE src.v[k]])

RECURSIVE FoldMerge(_, _)
FoldMerge(acc, payloads) ==
    IF payloads = <<>> THEN acc
    ELSE FoldMerge(RefMerge(acc, Head(payloads)), Tail(payloads))

\* C5: after any sequence of update_state calls on a merge-policy slot, the slot
\* holds the left fold of deep-merge over the object payloads of the sequence,
\* starting from the empty object; lists are replaced whole.
C5_MergeIsLeftFold ==
    (mode = "STORE" /\ focus \in MergeFeeds)
        => Get(state, focus, EmptyObj) = FoldMerge(EmptyObj, SelectSeq(applied, IsDict))

\* C5 witness: three payloads were merged, one recursing into a nested object and
\* one replacing a list by a list.
C5_Witness ==
    /\ mode = "STORE" /\ focus = "TopThree"
    /\ applied = << Obj("a" :> Obj("x" :> Lst(<<Num(1)>>))),
                    Obj("a" :> Obj("x" :> Lst(<<Num(2)>>))),
                    Obj("a" :> Obj("y" :> Num(2))) >>
    /\ state.v["TopThree"] = Obj("a" :> Obj(("x" :> Lst(<<Num(2)>>)) @@ ("y" :> Num(2))))

CarriesTriple(msg) ==
    IsDict(msg) /\ Has(msg, "Utc") /\ Has(msg, "Category") /\ Has(msg, "Message")

\* the individual messages of a payload: the list or the map under Messages, a
\* bare list, a bare message, or the values of a bare map of messages
MessagesOf(payload) ==
    IF IsList(payload) THEN payload.v
    ELSE IF ~IsDict(payload) THEN <<payload>>
    ELSE IF Has(payload, "Messages")
         THEN LET m == payload.v["Messages"]
              IN  IF IsList(m) THEN m.v ELSE IF IsDict(m) THEN Values(m) ELSE <<m>>
    ELSE IF CarriesTriple(payload) THEN <<payload>>
    ELSE Values(payload)

RECURSIVE ValidInOrder(_)
ValidInOrder(payloads) ==
    IF payloads = <<>> THEN <<>>
    ELSE SelectSeq(MessagesOf(Head(payloads)), CarriesTriple) \o ValidInOrder(Tail(payloads))

\* C6: the stored RaceControlMessages list is exactly the messages carrying Utc,
\* Category and Message, in arrival order, over all payloads applied so far.
C6_RcmExactlyValidInOrder ==
    (mode = "STORE" /\ focus = "RaceControlMessages")
        => state.v["RaceControlMessages"] = Lst(ValidInOrder(applied))

\* C7: a payload that is one bare message object (Utc, Category, Message, no
\* Messages key) is appended to the stored list as one message.
C7_BareMessageAppended ==
    [][ ( /\ mode = "STORE" /\ focus = "RaceControlMessages"
          /\ applied' /= applied
          /\ CarriesTriple(Last(applied')) /\ ~Has(Last(applied'), "Messages") )
        => state'.v["RaceControlMessages"]
              = Lst(state.v["RaceControlMessages"].v \o <<Last(applied')>>) ]_vars

----------------------------------------------------------------------------
(* Claims about the frame handlers *)

\* a step of Spec that handles a frame
FrameStep == nframes' = nframes + 1

CurrentLapOf(st) == st.v["LapCount"].v["CurrentLap"].v
TotalLapsOf(st) == st.v["LapCount"].v["TotalLaps"].v

\* the valid updates of an incremental frame, in order
UpdatesOf(data) ==
    IF IsDict(data) /\ ~Has(data, "R") /\ Has(data, "M") /\ IsList(data.v["M"])
    THEN SelectSeq(data.v["M"].v, ValidUpdate)
    ELSE <<>>

IsSnapshot(data) == IsDict(data) /\ Has(data, "R") /\ IsDict(data.v["R"])

\* C1: in every reachable state, at process start and after any sequence of
\* frames, LapCount.CurrentLap is at least 1.
C1_CurrentLapAtLeastOne == CurrentLapOf(state) >= 1

\* the frame carries TimingData: as a snapshot entry or as an incremental update
CarriesTimingData(data) ==
    \/ IsSnapshot(data) /\ Has(data.v["R"], "TimingData")
    \/ \E i \in 1..Len(UpdatesOf(data)) : UpdatesOf(data)[i].v["A"].v[1] = Str("TimingData")

\* C2: after every completely handled frame that carries TimingData (snapshot or
\* incremental), CurrentLap - 1 is the highest NumberOfLaps of the stored lines
\* (0 when there is none).
C2_CurrentLapFollowsLines ==
    (hist.frame /= None /\ ~hist.raised /\ CarriesTimingData(hist.frame))
        => CurrentLapOf(state) - 1
             = MaxLapsCompleted(Get(Get(state, "TimingData", EmptyObj), "Lines", EmptyObj))

\* the frame without its LapCount entries
StripLapCount(data) ==
    IF IsSnapshot(data)
    THEN RFrame(Del(Del(data.v["R"], "LapCount"), "LapCount.z"))
    ELSE IF UpdatesOf(data) /= <<>>
    THEN MFrame(SelectSeq(data.v["M"].v,
                          LAMBDA u : ~(ValidUpdate(u) /\ u.v["A"].v[1] = Str("LapCount"))))
    ELSE data

CarriesLapCount(data) == StripLapCount(data) /= data

\* the frame is made of LapCount entries only
OnlyLapCount(data) ==
    /\ CarriesLapCount(data)
    /\ StripLapCount(data) \in {RFrame(EmptyObj), MFrame(<<>>)}

\* what the handler of the step's frame read
EnvOfStep == [ts |-> hist'.ts, clock |-> now', failAt |-> hist'.failAt, clients |-> clients]

\* C3: the LapCount entries of a frame (plain or .z in a snapshot, an update in
\* an incremental frame) never change the stored LapCount: a frame of LapCount
\* entries only leaves CurrentLap and TotalLaps as they were, and any frame leaves
\* them as the same frame without its LapCount entries would.
C3_LapCountFeedIgnored ==
    [][ (FrameStep /\ CarriesLapCount(hist'.frame))
          => /\ OnlyLapCount(hist'.frame) => state'.v["LapCount"] = state.v["LapCount"]
             /\ state'.v["LapCount"]
                  = ProcessMessage(Ctx(state), EnvOfStep,
                                   StripLapCount(hist'.frame)).st.v["LapCount"] ]_vars

C3_Witness ==
    /\ hist.frame = MFrame(<<Update("LapCount", JunkLapCount)>>)
    /\ state.v["LapCount"] = Obj(("CurrentLap" :> Num(2)) @@ ("TotalLaps" :> Num(52)))

\* the circuit short name of a SessionInfo payload, None when it has none
ShortNameOf(session_info) ==
    IF IsDict(session_info) /\ IsDict(Get(session_info, "Meeting", None))
       /\ IsDict(Get(session_info.v["Meeting"], "Circuit", None))
    THEN Get(session_info.v["Meeting"].v["Circuit"], "ShortName", None)
    ELSE None

\* C4 as stated: in every reachable state TotalLaps is the table value for the
\* ShortName of the stored SessionInfo, 0 when it has none or an unknown one.
C4_TotalLapsOfStoredSession ==
    TotalLapsOf(state) =
        (LET name == ShortNameOf(Get(state, "SessionInfo", None))
         IN  IF name.t = "str" THEN GrandPrixLaps(name.v) ELSE 0)

\* the SessionInfo payloads a frame hands to the handlers, in order
SessionInfosOf(data) ==
    IF IsSnapshot(data)
    THEN LET names == SelectSeq(Keys(data.v["R"]),
                                LAMBDA k : k \in {"SessionInfo", "SessionInfo.z"})
         IN  [i \in 1..Len(names) |->
                 IF names[i] = "SessionInfo" THEN data.v["R"].v[names[i]]
                 ELSE data.v["R"].v[names[i]].v]
    ELSE LET ups == SelectSeq(UpdatesOf(data),
                              LAMBDA u : u.v["A"].v[1] = Str("SessionInfo"))
         IN  [i \in 1..Len(ups) |-> ups[i].v["A"].v[2]]

RECURSIVE LastNamedTotal(_, _)
\* the table value of the last payload that names a circuit, total when none does
LastNamedTotal(total, session_infos) ==
    IF session_infos = <<>> THEN total
    ELSE LET name == ShortNameOf(Last(session_infos))
         IN  IF name.t = "str" /\ name.v /= ""
             THEN GrandPrixLaps(name.v)
             ELSE LastNamedTotal(total, SubSeq(session_infos, 1, Len(session_infos) - 1))

\* C4, amended: TotalLaps is 0 at process start and changes only when a
\* SessionInfo payload that carries a non-empty ShortName is handled: it becomes
\* the table value for that name (0 for a name not in the table).  A SessionInfo
\* without ShortName, and every other input, leaves it as it was.
C4_TotalLapsFromNamedSession ==
    /\ TotalLapsOf(state) = 0
    /\ [][ /\ ~FrameStep => TotalLapsOf(state') = TotalLapsOf(state)
           /\ FrameStep =>
                LET infos == SessionInfosOf(hist'.frame)
                IN  /\ ~hist'.raised =>
                          TotalLapsOf(state') = LastNamedTotal(TotalLapsOf(state), infos)
                    /\ \E k \in 0..Len(infos) :
                          TotalLapsOf(state')
                              = LastNamedTotal(TotalLapsOf(state), SubSeq(infos, 1, k)) ]_vars

C4_Witness ==
    /\ hist.frame = MFrame(<<Update("SessionInfo", SessionNoName)>>)
    /\ ~hist.raised
    /\ state.v["SessionInfo"] = SessionNoName
    /\ TotalLapsOf(state) = 52

\* C8: in every reachable state a driver is a key of DriversInPits exactly when
\* an InPit=true event of a TimingData delta for the driver has not been followed
\* by a PitOut=true event for the driver.
C8_TrackedIffOpenInPit ==
    \A d \in DriverNumbers : Has(state.v["DriversInPits"], d) <=> inpit[d] /= NoPit

\* some TimingData delta of the frame carries flag=true for driver d
CarriesFor(data, d, flag) ==
    \E i \in 1..Len(TimingDeltas(data)) :
        LET lines == TimingDeltas(data)[i].v["Lines"]
        IN  Has(lines, d) /\ Get(lines.v[d], flag, None) = Bool(TRUE)

\* C9: a further InPit=true delta for a driver already tracked, with no PitOut
\* for the driver, leaves the tracked entry (entry_time, lap_number) unchanged.
C9_RepeatedInPitKeepsEntry ==
    [][ \A d \in DriverNumbers :
          (/\ FrameStep
           /\ Has(state.v["DriversInPits"], d)
           /\ CarriesFor(hist'.frame, d, "InPit")
           /\ ~CarriesFor(hist'.frame, d, "PitOut"))
          => /\ Has(state'.v["DriversInPits"], d)
             /\ state'.v["DriversInPits"].v[d] = state.v["DriversInPits"].v[d] ]_vars

\* C10: when the PitOut=true delta of a tracked driver whose InPit=true delta
\* arrived at t0 arrives at t1 and every send succeeds, exactly one pit record is
\* appended and broadcast as NewPitStop, its pit_duration is t1 - t0, and the
\* driver is no longer tracked.
C10_PitDurationBetweenFrames ==
    [][ \A d \in DriverNumbers :
          (/\ FrameStep
           /\ hist'.failAt = 0
           /\ inpit[d] /= NoPit
           /\ Has(state.v["DriversInPits"], d)
           /\ CarriesFor(hist'.frame, d, "PitOut")
           /\ ~CarriesFor(hist'.frame, d, "InPit"))
          => /\ Len(state'.v["PitHistory"].v) = Len(state.v["PitHistory"].v) + 1
             /\ LET pit_record == Last(state'.v["PitHistory"].v)
                IN  /\ pit_record.v["driver_number"] = Num(IntOfDriver(d))
                    /\ pit_record.v["pit_duration"]
                         = Float((hist'.ts.v - inpit[d][1]) * TickMs)
                    /\ \E i \in 1..Len(hist'.out) :
                          hist'.out[i] = Envelope("NewPitStop", pit_record)
             /\ ~Has(state'.v["DriversInPits"], d) ]_vars

----------------------------------------------------------------------------
(* Claims about the lap detector *)

LapHistoryOf(st) == st.v["LapHistory"].v

\* the lap records the step appended
NewLapRecords ==
    SubSeq(LapHistoryOf(state'), Len(LapHistoryOf(state)) + 1, Len(LapHistoryOf(state')))

\* the records of driver d among recs, in order
RecordsOf(recs, d) ==
    SelectSeq(recs, LAMBDA r : r.v["driver_number"] = Num(IntOfDriver(d)))

\* the NewLap envelopes for driver d among the envelopes out, in order
NewLapsOf(out, d) ==
    SelectSeq(out, LAMBDA e : /\ Has(e, "type") /\ e.v["type"] = Str("NewLap")
                              /\ e.v["data"].v["driver_number"] = Num(IntOfDriver(d)))

\* the delta line carries a non-empty LastLapTime.Value that parses to a duration
LapTimeParses(line) ==
    LET value == Get(Get(line, "LastLapTime", EmptyObj), "Value", None)
    IN  Truthy(value) /\ TimeStringToSeconds(value) /= None

\* C11: for each driver d of an incoming TimingData delta, one lap record with
\* the merged NumberOfLaps is appended and one NewLap envelope is broadcast exactly
\* when the delta carries a LastLapTime.Value that parses and NumberOfLaps is
\* present in the merged view of d (0 included); otherwise nothing is appended or
\* broadcast for d.
C11_LapRecordIffLapTimeAndLaps ==
    [][ (FrameStep /\ hist'.failAt = 0 /\ Len(TimingDeltas(hist'.frame)) = 1)
          => \A d \in DOMAIN TimingDeltas(hist'.frame)[1].v["Lines"].v :
               LET line == TimingDeltas(hist'.frame)[1].v["Lines"].v[d]
                   merged == StoredLine(state', d)
                   records == RecordsOf(NewLapRecords, d)
                   envelopes == NewLapsOf(hist'.out, d)
               IN  IF LapTimeParses(line) /\ Has(merged, "NumberOfLaps")
                   THEN /\ Len(records) = 1
                        /\ records[1].v["lap_number"] = merged.v["NumberOfLaps"]
                        /\ envelopes = <<Envelope("NewLap", records[1])>>
                   ELSE records = <<>> /\ envelopes = <<>> ]_vars

C13_LapNumbersIncrease ==
    \A d \in DriverNumbers :
        LET records == RecordsOf(LapHistoryOf(state), d)
        IN  \A i, j \in 1..Len(records) :
                i < j => records[i].v["lap_number"].v < records[j].v["lap_number"].v

----------------------------------------------------------------------------
(* Claims about the fan-out *)

\* C14: an accepted subscriber is registered and the first frame it receives is
\* the full store state as it is at that moment (its RaceControlMessages are the
\* valid messages of every update applied before, in order), sent once: every
\* later frame of the subscriber is the envelope of the broadcast in progress.
C14_FirstFrameIsFullState ==
    [][ \A c \in Subscribers :
          /\ (fan.log[c] = <<>> /\ fan'.log[c] /= <<>>)
               => /\ c \in Registered(clients')
                  /\ fan'.log[c] = <<state>>
                  /\ state.v["RaceControlMessages"] = Lst(ValidInOrder(applied))
          /\ fan.log[c] /= <<>>
               => /\ fan'.log[c][1] = fan.log[c][1]
                  /\ \A i \in (Len(fan.log[c]) + 1)..Len(fan'.log[c]) :
                         /\ Has(fan'.log[c][i], "type")
                         /\ fan'.log[c][i] = fan.bc.msg ]_vars

\* the second subscriber is accepted between the two updates: its frames are the
\* full state with the first message, then the envelope of the second update
C14_Witness ==
    /\ fan.log["s1"] = <<InitialState,
                         Envelope("RaceControlMessages", Obj("Messages" :> Lst(<<Msg1>>))),
                         Envelope("RaceControlMessages", Obj("Messages" :> Lst(<<Msg2>>)))>>
    /\ Len(fan.log["s2"]) = 2
    /\ fan.log["s2"][1].v["RaceControlMessages"] = Lst(<<Msg1>>)
    /\ fan.log["s2"][2] = Envelope("RaceControlMessages", Obj("Messages" :> Lst(<<Msg2>>)))

\* C15: a broadcast that ran to its end has delivered its envelope exactly once to
\* every subscriber registered from its start to its end.
C15_DeliveredOnceToAllWhoStayed ==
    fan.bc.ended = "done"
      => \A c \in fan.bc.stayed :
            Cardinality({ i \in 1..Len(fan.bc.sent) : fan.bc.sent[i] = c }) = 1

\* C16: when a send of a broadcast fails, that subscriber is removed from the
\* registry, the broadcast does not raise into the frame handler, and at its end
\* every other subscriber that stayed registered has been sent the envelope.
C16_FailingSendEvicts ==
    [][ /\ \A c \in fan'.bc.failed \ fan.bc.failed :
              c \notin Registered(clients') /\ fan'.bc.ended /= "raised"
        /\ (fan.bc.active /\ ~fan'.bc.active /\ fan'.bc.failed /= {})
              => \A c \in fan'.bc.stayed \ fan'.bc.failed :
                     \E i \in 1..Len(fan'.bc.sent) : fan'.bc.sent[i] = c ]_vars

\* C17: no subscriber whose endpoint has ended, on a disconnect seen while
\* receiving or on a failure of the initial send, is still registered.
C17_EndedSubscriberUnregistered ==
    \A c \in Subscribers :
        fan.pc[c] \in {"closed", "failed"} => c \notin Registered(clients)

\* C18: every frame a registered subscriber is sent while an upstream frame is
\* handled, snapshot frames included, is an object with a type and a data field.
C18_EveryFrameIsEnvelope ==
    [][ (FrameStep /\ clients /= <<>>)
          => \A i \in 1..Len(hist'.out) :
                /\ IsDict(hist'.out[i])
                /\ Has(hist'.out[i], "type") /\ Has(hist'.out[i], "data") ]_vars

\* the envelopes a subscriber has been sent: its frames that are not a full state
EnvelopesOf(frames) == SelectSeq(frames, LAMBDA m : Has(m, "type"))

\* envs is a subsequence of the envelopes of the updates, taken in their order
InOrderOf(envs, updates) ==
    \E f \in [1..Len(envs) -> 1..Len(updates)] :
        /\ \A i \in 1..Len(envs) : envs[i] = Envelope("RaceControlMessages", updates[f[i]])
        /\ \A i, j \in 1..Len(envs) : i < j => f[i] < f[j]

\* C31: the envelope being broadcast is that of the update applied last, and the
\* envelopes every subscriber has been sent are envelopes of applied updates, in
\* the order in which the updates were applied to the store.
C31_EnvelopesInApplicationOrder ==
    /\ fan.bc.active
          => /\ applied /= <<>>
             /\ fan.bc.msg = Envelope("RaceControlMessages", Last(applied))
             /\ state.v["RaceControlMessages"] = Lst(ValidInOrder(applied))
    /\ \A c \in Subscribers : InOrderOf(EnvelopesOf(fan.log[c]), applied)

\* both subscribers have been sent the envelopes of two different updates
C31_Witness ==
    /\ Len(applied) = 2 /\ applied[1] /= applied[2]
    /\ \A c \in Subscribers :
          EnvelopesOf(fan.log[c]) = <<Envelope("RaceControlMessages", applied[1]),
                                      Envelope("RaceControlMessages", applied[2])>>

\* the updates a subscriber's initial frame reflects: the messages it holds
ReflectedIn(frame) == Len(frame.v["RaceControlMessages"].v)

\* C39: once no broadcast is in progress, a subscriber that is registered and
\* connected has every applied update either in its initial full-state frame or
\* as a later envelope: the envelopes after its initial frame are those of all
\* the updates applied after the ones the initial frame reflects.
C39_NoGapAfterSnapshot ==
    ~fan.bc.active
      => \A c \in Registered(clients) :
            (fan.open[c] /\ fan.pc[c] \in {"sending", "receiving"})
              => LET n    == ReflectedIn(fan.log[c][1])
                     envs == EnvelopesOf(fan.log[c])
                     m    == Len(applied) - n
                 IN  /\ Len(envs) >= m
                     /\ \A k \in 1..m :
                            envs[Len(envs) - m + k]
                              = Envelope("RaceControlMessages", applied[n + k])

----------------------------------------------------------------------------
(* Claims about the live connection *)

\* C19: when the handling of a frame raises, the live connection is kept: the
\* loop is still listening on the same WebSocket connection, no sleep and no
\* reconnect follows.
C19_FrameErrorKeepsConnection ==
    [][ (FrameStep /\ hist'.raised)
          => /\ conn'.phase = "listening"
             /\ conn'.id = conn.id
             /\ conn'.retry_delay = conn.retry_delay ]_vars

\* C20: while no attempt has succeeded since the start, the sleep after the k-th
\* failed attempt is min(5 * 2^(k-1), 600) seconds; and the retry delay is always
\* between 5 and 600 seconds.
C20_BackoffSchedule ==
    [][ /\ conn.retry_delay \in 5..600
        /\ conn'.retry_delay \in 5..600
        /\ conn'.fails > conn.fails
             => conn'.wait = (IF 5 * 2^(conn'.fails - 1) < 600
                              THEN 5 * 2^(conn'.fails - 1) ELSE 600) ]_vars

\* eight failed attempts from the start: the last sleep is the capped one
C20_Witness ==
    conn.fromStart /\ conn.fails = 8 /\ conn.wait = 600 /\ conn.retry_delay = 600

\* C21: a successful connect resets the retry delay to 5 seconds, whatever the
\* failures before it, and the sleep that follows the end of that connection
\* (a close, a frame that raises, a failing subscribe) is 5 seconds.
C21_ConnectResetsDelay ==
    [][ /\ conn'.id > conn.id
          => /\ conn'.phase = "listening" => conn'.retry_delay = 5
             /\ conn'.phase = "connecting" => conn'.wait = 5
        /\ (conn.phase = "listening" /\ conn'.phase = "connecting") => conn'.wait = 5 ]_vars

\* three failed attempts, then a connection that has ended: the sleep was 5 seconds
C21_Witness ==
    /\ conn.attempts = 4 /\ conn.fails = 3 /\ conn.id = 1
    /\ conn.phase = "connecting" /\ conn.failedSince = 0 /\ conn.wait = 5

\* C22: the clean close of a connection leaves the retry delay as it was, and the
\* sleep after the first failed attempt that follows a connection is 5 seconds.
C22_CleanCloseDoesNotDouble ==
    [][ /\ (conn.phase = "listening" /\ conn'.phase = "connecting" /\ nframes' = nframes)
          => conn'.retry_delay = conn.retry_delay
        /\ (~conn.fromStart /\ conn.failedSince = 0 /\ conn'.failedSince = 1)
          => conn'.wait = 5 ]_vars

\* C23: the reconnect loop never gives up: every failed attempt and every end of
\* a connection closes the HTTP session, sleeps for the retry delay and leaves
\* the loop at its head, and from there a further attempt is eventually made,
\* after any number of failures.
C23_NeverGivesUp ==
    /\ [][ (\/ (conn'.attempts > conn.attempts /\ conn'.phase /= "listening")
            \/ (conn.phase = "listening" /\ conn'.phase /= "listening"))
             => /\ conn'.phase = "connecting"
                /\ conn'.session = "closed"
                /\ conn'.wait \in 5..600 ]_vars
    /\ \A k \in 0..(MaxAttempts - 1) :
          (conn.attempts = k /\ conn.phase /= "listening") ~> (conn.attempts > k)

\* three failures in a row from the start: the session is closed, the third
\* sleep was 20 seconds and the loop is at its head again
C23_Witness ==
    /\ conn.fromStart /\ conn.fails = 3 /\ conn.attempts = 3
    /\ conn.phase = "connecting" /\ conn.session = "closed" /\ conn.wait = 20

\* C24: once the upstream accepts connections and keeps sending well-formed
\* frames, a lost connection is followed, eventually, by an incremental frame
\* applied to the store, whatever the store holds.
C24_IngestionResumes ==
    (conn.good /\ conn.phase = "connecting") ~> conn.resumed

----------------------------------------------------------------------------
(* Claims about the replay run *)

\* the text entries of a file whose frame is the race-control update
GoodTexts(file) ==
    SelectSeq(file, LAMBDA l : l.kind = "text" /\ l.data /= BadText)

\* the indices 1..n in order
Upto(n) == [i \in 1..n |-> i]

\* the indices of the well-formed entries of a file, in order
WellFormedIn(file) == SelectSeq(Upto(Len(file)), LAMBDA i : WellFormed(file[i]))

\* C25: a replay run ends; at its end every line has been read once, in file
\* order, every well-formed entry has been handed to processing once, lines that
\* are not JSON or whose processing raises have not stopped it (the store holds
\* the messages of every valid text entry), and a missing file ends the run with
\* the store untouched.
C25_ReplayReadsEveryLineOnce ==
    /\ [](conn.phase = "finished"
            => IF conn.missing
               THEN state = InitialState /\ conn.visited = <<>> /\ conn.handed = <<>>
               ELSE /\ conn.visited = Upto(Len(conn.file))
                    /\ conn.handed = WellFormedIn(conn.file)
                    /\ state.v["RaceControlMessages"]
                         = Lst([i \in 1..Len(GoodTexts(conn.file)) |-> Msg1]))
    /\ <>(conn.phase = "finished")

\* a run over a line that is not JSON, a frame text that is not JSON and a valid
\* frame has ended with the valid frame applied
C25_Witness ==
    /\ conn.phase = "finished"
    /\ conn.file = <<GarbageLine, TextLine(BadText),
                     TextLine(MFrame(<<Update("RaceControlMessages",
                                              Obj("Messages" :> Lst(<<Msg1>>)))>>))>>
    /\ state.v["RaceControlMessages"] = Lst(<<Msg1>>)

----------------------------------------------------------------------------
(* Claims about replay and the wall clock *)

\* C26: replay is deterministic: what a frame of a replay leaves in the store
\* (LapHistory and PitHistory included) depends on the store before it and on the
\* entry's timestamp only, not on the wall-clock time at which it is handled.
C26_ReplayIgnoresWallClock ==
    [][ (FrameStep /\ mode = "REPLAY")
          => \A clock \in 0..(now' + 1) :
                ProcessMessage(Ctx(state), [EnvOfStep EXCEPT !.clock = clock],
                               hist'.frame).st = state' ]_vars

----------------------------------------------------------------------------
(* Claims about snapshot frames and the order of the envelopes *)

\* C27: after a snapshot frame with a feed X.z whose value decodes to J, slot X
\* (X other than the discarded LapCount) holds what update_state makes of J:
\* for CarData, J itself, the empty object included.
C27_CompressedFeedStored ==
    [][ (FrameStep /\ IsSnapshot(hist'.frame))
          => \A k \in DOMAIN hist'.frame.v["R"].v :
                (EndsWithZ(k) /\ k /= "LapCount.z" /\ hist'.frame.v["R"].v[k].t = "zstr")
                  => LET X == CleanFeedName(k)
                         J == hist'.frame.v["R"].v[k].v
                     IN  /\ state'.v[X] = UpdateState(state, X, J).v[X]
                         /\ X = "CarData" => state'.v[X] = J ]_vars

\* C29: handling a snapshot frame does not raise and ends with the full store
\* state sent out, whatever the store holds (no send fails here).
C29_SnapshotBroadcastsFullState ==
    [][ (FrameStep /\ IsSnapshot(hist'.frame) /\ hist'.failAt = 0)
          => ~hist'.raised /\ hist'.out = <<state'>> ]_vars

\* the type of an envelope
TypeOf(envelope) == envelope.v["type"].v

\* C30: for a frame of one TimingData update the delta is merged into the store
\* and the envelopes go out in this order: one LapCount envelope with the
\* recomputed LapCount, the NewLap envelopes, the NewPitStop envelopes, and the
\* TimingData envelope with the raw delta last.
C30_EnvelopeOrder ==
    [][ (FrameStep /\ Len(UpdatesOf(hist'.frame)) = 1 /\ Len(TimingDeltas(hist'.frame)) = 1)
          => LET out == hist'.out
                 delta == TimingDeltas(hist'.frame)[1]
             IN  /\ state'.v["TimingData"] = DeepMerge(state.v["TimingData"], delta)
                 /\ Len(out) >= 2
                 /\ out[1] = Envelope("LapCount", state'.v["LapCount"])
                 /\ out[Len(out)] = Envelope("TimingData", delta)
                 /\ \A i \in 2..(Len(out) - 1) : TypeOf(out[i]) \in {"NewLap", "NewPitStop"}
                 /\ \A i, j \in 2..(Len(out) - 1) :
                        (TypeOf(out[i]) = "NewLap" /\ TypeOf(out[j]) = "NewPitStop") => i < j ]_vars

----------------------------------------------------------------------------
(* Claims about the lap detector and deep-merge *)

\* the TimingData deltas of the frames of a lap run
LapDeltas == { TimingDeltas(f)[1] : f \in LapFrames }

\* C40: the lap detector, run on a delta that update_state has applied, leaves
\* the TimingData slot as update_state left it: for each driver of the delta the
\* view it builds by deep-merging the delta into the stored entry equals the
\* stored entry, deep-merge being idempotent (merge(merge(d, s), s) = merge(d, s),
\* here for the stored TimingData as d and every delta as s).
C40_LapDetectorLeavesTimingData ==
    [][ FrameStep
          => LET delta  == TimingDeltas(hist'.frame)[1]
                 merged == DeepMerge(state.v["TimingData"], delta)
             IN  /\ state'.v["TimingData"] = merged
                 /\ \A d \in DOMAIN delta.v["Lines"].v :
                        DeepMerge(merged.v["Lines"].v[d], delta.v["Lines"].v[d])
                          = merged.v["Lines"].v[d]
                 /\ \A s \in LapDeltas :
                        DeepMerge(DeepMerge(state.v["TimingData"], s), s)
                          = DeepMerge(state.v["TimingData"], s) ]_vars

\* the detector has recorded a lap of driver 44 from a delta whose LastLapTime
\* was merged into a stored entry that already held one
C40_Witness ==
    /\ nframes = 3
    /\ Len(state.v["LapHistory"].v) = 2
    /\ \A i \in 1..2 : state.v["LapHistory"].v[i].v["driver_number"] = Num(44)
    /\ state.v["TimingData"].v["Lines"].v["44"].v["LastLapTime"] = Obj("Value" :> LapTimeOk)

----------------------------------------------------------------------------
(* Claims about shutdown *)

\* C38: when the process has shut down, the file holds the full store state as
\* it was at that moment, no subscriber is registered any more and no
\* subscriber connection is open.
C38_ShutdownWritesAndReleases ==
    conn.phase = "exited"
      => /\ conn.file = DateTimeEncode(state)
         /\ clients = <<>>
         /\ \A c \in Subscribers : fan.pc[c] \notin {"sending", "receiving"}

----------------------------------------------------------------------------
(* Claims about the steps of a connection attempt *)

\* C37: the steps of every connection attempt come in the order negotiate,
\* WebSocket connect, subscribe, frames: one Subscribe message per connection,
\* sent before any frame is handed on, and the backoff wait last; an attempt
\* whose negotiate response has no ConnectionToken connects no WebSocket and
\* ends in the wait.
C37_AttemptOrder ==
    /\ \A i \in 1..Len(conn.steps) :
          /\ conn.steps[i] = "negotiate" => i = 1
          /\ conn.steps[i] = "ws_connect" => i = 2 /\ conn.steps[1] = "negotiate"
          /\ conn.steps[i] = "subscribe" => i = 3 /\ conn.steps[2] = "ws_connect"
          /\ conn.steps[i] = "frame" => i > 3 /\ conn.steps[3] = "subscribe"
          /\ conn.steps[i] = "wait" => i = Len(conn.steps) /\ i >= 2
    /\ conn.token = "missing"
          => conn.steps = <<"negotiate", "wait">> /\ conn.phase = "connecting"
    /\ conn.phase = "listening" => conn.steps[3] = "subscribe"

\* after a connection on which frames were read, the next negotiation has
\* brought no token and the attempt has ended in the wait
C37_Witness ==
    /\ nframes >= 1
    /\ conn.token = "missing"
    /\ conn.steps = <<"negotiate", "wait">>

----------------------------------------------------------------------------
(* Claims about the dispatch of a frame's elements *)

\* the envelopes of a given type among those sent out, in order
OfType(out, type) == SelectSeq(out, LAMBDA e : Has(e, "type") /\ TypeOf(e) = type)

\* C32: a frame of one TeamRadio update, of any shape the store accepts, is
\* handled without raising: its captures are appended to the store, one TeamRadio
\* envelope carrying the payload is sent out, and one NewTeamRadio envelope per
\* capture (no send fails here).
C32_TeamRadioDeltaAndCaptures ==
    [][ (/\ FrameStep /\ hist'.failAt = 0
         /\ Len(UpdatesOf(hist'.frame)) = 1 /\ Len(hist'.frame.v["M"].v) = 1
         /\ UpdatesOf(hist'.frame)[1].v["A"].v[1] = Str("TeamRadio"))
          => LET payload  == UpdatesOf(hist'.frame)[1].v["A"].v[2]
                 captures == CapturesToAdd(payload)
             IN  /\ ~hist'.raised
                 /\ state'.v["TeamRadio"] = Lst(state.v["TeamRadio"].v \o captures)
                 /\ OfType(hist'.out, "TeamRadio") = <<Envelope("TeamRadio", payload)>>
                 /\ OfType(hist'.out, "NewTeamRadio")
                       = [i \in 1..Len(captures) |-> Envelope("NewTeamRadio", captures[i])]
                 /\ Len(hist'.out) = 1 + Len(captures) ]_vars

RECURSIVE EachOnce(_, _, _)
\* every update of the list dispatched once, in list order, each on the store the
\* one before it left: the store and the envelopes at the end
EachOnce(res, env, updates) ==
    IF updates = <<>> THEN res
    ELSE LET one == FeedUpdate(Ctx(res.st), env, Head(updates))
         IN  EachOnce([st |-> one.st, out |-> res.out \o one.out], env, Tail(updates))

\* a frame with an M list
IsIncremental(data) ==
    IsDict(data) /\ ~Has(data, "R") /\ Has(data, "M") /\ IsList(data.v["M"])

\* C34: the store and the envelopes after an incremental frame are those of its
\* valid updates dispatched one at a time in list order, each once; the elements
\* that fail the validation count for nothing (no send fails here).
C34_UpdatesDispatchedInOrder ==
    [][ (FrameStep /\ IsIncremental(hist'.frame) /\ hist'.failAt = 0)
          => LET res == EachOnce([st |-> state, out |-> <<>>], EnvOfStep,
                                 UpdatesOf(hist'.frame))
             IN  state' = res.st /\ hist'.out = res.out ]_vars

\* a payload that is not the base64 of a deflated JSON text
Undecodable(x) == x.t /= "zstr"

\* a snapshot frame without its .z feeds that do not decode
WithoutUndecodable(data) ==
    LET R == data.v["R"].v
        kept == { k \in DOMAIN R : ~(EndsWithZ(k) /\ Undecodable(R[k])) }
    IN  RFrame(Obj([k \in kept |-> R[k]]))

\* the step handles a binary message
BinaryStep == FrameStep /\ hist'.frame.t \in {"zstr", "str"}

\* C35: a payload that does not decode is discarded.  A snapshot frame ends as
\* the same frame without its undecodable .z feeds would (same store, same
\* frames sent out, the feeds after it applied); an undecodable binary message,
\* live or replayed, changes no slot, sends nothing and does not raise.
C35_UndecodableDiscarded ==
    [][ /\ (FrameStep /\ IsSnapshot(hist'.frame))
             => LET res == ProcessMessage(Ctx(state), EnvOfStep,
                                          WithoutUndecodable(hist'.frame))
                IN  /\ state' = res.st
                    /\ hist'.out = res.out
                    /\ hist'.raised = res.raised
        /\ (BinaryStep /\ Undecodable(hist'.frame))
             => state' = state /\ hist'.out = <<>> /\ ~hist'.raised ]_vars

\* an undecodable binary message was handled last, after a snapshot whose
\* SessionInfo.z did not decode and whose WeatherData was stored, and a binary
\* message that was stored
C35_Witness ==
    /\ nframes = 3
    /\ Undecodable(hist.frame) /\ ~IsDict(hist.frame)
    /\ state.v["WeatherData"] = WeatherSample
    /\ state.v["SessionInfo"] = EmptyObj
    /\ state.v["CarData"] = CarSample

\* C36: the slots of the store are those of the declared table, after any
\* sequence of frames; a feed named X.z never makes a slot named X.z.
C36_SlotNamesFixed ==
    /\ DOMAIN state.v = DOMAIN InitialState.v
    /\ \A k \in DOMAIN state.v : ~EndsWithZ(k)

\* the list s is a prefix of the list t
IsPrefix(s, t) == Len(s) <= Len(t) /\ SubSeq(t, 1, Len(s)) = s

AppendOnlySlots == {"RaceControlMessages", "TeamRadio", "LapHistory", "PitHistory"}

\* C33: in every step of a run the previous contents of RaceControlMessages,
\* TeamRadio, LapHistory and PitHistory are an unchanged prefix of the new ones.
C33_ListsAppendOnly ==
    [][ \A slot \in AppendOnlySlots :
            /\ IsList(state'.v[slot])
            /\ IsPrefix(state.v[slot].v, state'.v[slot].v) ]_vars

----------------------------------------------------------------------------
(* Claims about the serving task *)

\* C28: only the ingestion task changes the store: a pull request or a
\* subscriber connection leaves every slot of the store as it was.
C28_ServingLeavesStore ==
    [][ applied' = applied => state' = state ]_vars

====
